---- MODULE Spec2Model ----
(***************************************************************************)
(* Model of the OCAD 8 import/export codec (src/src/file_format_ocad8.cpp),*)
(* of the object undo steps (src/src/map_undo.cpp) and of the common       *)
(* fields of a symbol (src/src/symbol.cpp).                                *)
(*                                                                         *)
(* The specifications share the variables below:                           *)
(*   SpecExport  OCAD8FileExport::doExport, one step per loop iteration    *)
(*   SpecImport  OCAD8FileImport::doImport, one step per loop iteration    *)
(*   SpecScalar  the scalar conversions (size, point, rotation, strings),  *)
(*               the hatch export and Symbol::duplicateImplCommon          *)
(*   SpecLoad    OCAD8FileImport::doImport with symbols, objects and view  *)
(*   SpecPath    fillPathCoords and exportCoordinates on one path          *)
(*   SpecUndo    undo(), destruction and symbol slots of the undo steps    *)
(***************************************************************************)
EXTENDS Integers, Sequences, FiniteSets, TLC

VARIABLES
    pc,               \* position inside doImport / doExport / the scalar harness
    stream,           \* the QIODevice handed to the importer / exporter
    stream_written,   \* TRUE once stream->write() has been called
    file,             \* the libocad OCADFile*: "null", "open" or "closed"
    header_major,     \* file->header->major
    map_colors,       \* map->color_set->colors
    map_symbols,      \* map->symbols
    map_objects,      \* the objects of the map's layers, in iteration order
    ocad_colors,      \* the legacy colour table
    ocad_symbols,     \* the legacy symbol records, in creation order
    ocad_objects,     \* the legacy object records, in creation order
    symbol_numbers,   \* OCAD8FileExport::symbol_numbers
    symbol_index,     \* OCAD8FileExport::symbol_index
    text_format_map,  \* OCAD8FileExport::text_format_map
    color_index,      \* OCAD8FileImport::color_index
    warnings,         \* the warnings recorded with addWarning()
    error,            \* the FormatException thrown, or "none"
    i,                \* the loop counter of the running loop
    last,             \* what the last step produced (emitted numbers, a lookup result)
    arg,              \* scalar harness: the input
    res,              \* scalar harness: the results
    load_symbols_only,\* the parameter of doImport
    ocad_setup,       \* file->setup and the string table of the legacy file
    rectangle_info,   \* OCAD8FileImport::rectangle_info
    text_halign_map,  \* OCAD8FileImport::text_halign_map
    layer,            \* the "OCAD import layer" doImport is filling
    map_layers,       \* map->layers
    map_templates,    \* map->templates
    view,             \* the MapView: zoom and centre, or the null view
    undo_steps,       \* the undo steps of the map, in creation order
    deleted_objects   \* the objects deleted by the destructors of undo steps

vars == <<pc, stream, stream_written, file, header_major, map_colors, map_symbols,
          map_objects, ocad_colors, ocad_symbols, ocad_objects, symbol_numbers,
          symbol_index, text_format_map, color_index, warnings, error, i, last, arg, res,
          load_symbols_only, ocad_setup, rectangle_info, text_halign_map, layer,
          map_layers, map_templates, view, undo_steps, deleted_objects>>

\* what only the undo steps read and write
undo_vars == <<undo_steps, deleted_objects>>

\* what only the object phase of doImport reads and writes
load_vars == <<load_symbols_only, ocad_setup, rectangle_info, text_halign_map, layer,
               map_layers, map_templates, view>>

(***************************************************************************)
(* Bounds of the model.                                                    *)
(***************************************************************************)
MaxSymbols == 2

MaxObjects == 3

MaxColors == 2

MaxLookups == 2

MaxScalar == 25

MaxCoord == 3

\* the longest of the short texts handed to the string encoder
MaxText == 3

\* the most points of a path object
MaxPathPoints == 4

\* the most symbols and objects of the files with several of them
MaxFileSymbols == 2

MaxFileObjects == 2

\* elements of a point pattern
MaxElements == 2

\* fill patterns of an area symbol
MaxPatterns == 3

\* the objects of the layer the undo steps work on, and the undos in a row
MaxLayerObjects == 3

MaxUndos == 3

(***************************************************************************)
(* Program constants.                                                      *)
(***************************************************************************)
MaxLegacyColors == 256

OCAD_POINT_SYMBOL == 1

OCAD_LINE_SYMBOL == 2

OCAD_AREA_SYMBOL == 3

OCAD_TEXT_SYMBOL == 4

\* the value of last before any lookup, of arg and res outside the harness
NoCall == [op |-> "none"]

NoValue == [op |-> "none"]

\* the state of the object phase of doImport where no file is being loaded
NoLoad ==
    /\ load_symbols_only = FALSE
    /\ ocad_setup = [zoom |-> 0, center |-> <<0, 0>>, strings |-> <<>>]
    /\ rectangle_info = << >>
    /\ text_halign_map = << >>
    /\ layer = <<>>
    /\ map_layers = <<>>
    /\ map_templates = <<>>
    /\ view = [null |-> TRUE]

\* no undo step exists
NoUndo ==
    /\ undo_steps = <<>>
    /\ deleted_objects = <<>>

(***************************************************************************)
(* Fixed-width integers.                                                   *)
(***************************************************************************)
\* conversion of an int to s16 (two's complement wrap)
ToS16(v) == ((v + 32768) % 65536) - 32768

\* the elements of a set of integers in ascending order (std::set iteration)
RECURSIVE SortedSeq(_)
SortedSeq(S) ==
    IF S = {} THEN <<>>
    ELSE LET m == CHOOSE x \in S : \A y \in S : x <= y
         IN  <<m>> \o SortedSeq(S \ {m})

\* a / b and a % b of C++, which truncate toward zero
CDiv(a, b) == IF a >= 0 THEN a \div b ELSE -((-a) \div b)

CMod(a, b) == a - b * CDiv(a, b)

\* v & bit, for a bit 1, 2, 4, ... and a non-negative v
HasBit(v, bit) == (v \div bit) % 2 = 1

\* the sequences of at most max elements of S
SeqsUpTo(S, max) == UNION { [1..n -> S] : n \in 0..max }

(***************************************************************************)
(* The modern map handed to the exporter.                                  *)
(***************************************************************************)
SymbolTypes == {"Point", "Line", "Area", "Text", "Combined"}

\* Symbol::number[0..1]; -1 is the unset component (Symbol::Symbol)
NumberInputs == { <<-1, -1>>, <<1, 7>>, <<3276, 7>> }

HorizontalAlignments == {"AlignLeft", "AlignHCenter", "AlignRight"}

\* MapColor::c, m, y, k and opacity in thousandths (0.005f * n is 5 * n
\* thousandths)
CmykInputs ==
    { [c |-> 0,   m |-> 0,   y |-> 0, k |-> 1000],
      [c |-> 500, m |-> 235, y |-> 5, k |-> 0] }

\* a MapColor; in a map's colour list the priority is the position
MapColor(priority, cmyk) ==
    [priority |-> priority, c |-> cmyk.c, m |-> cmyk.m, y |-> cmyk.y, k |-> cmyk.k,
     opacity |-> 1000]

SymbolRecords(n) ==
    [type : SymbolTypes \ {"Combined"}, number : NumberInputs, parts : {{}}]
    \cup [type : {"Combined"}, number : NumberInputs, parts : SUBSET (1..n)]

\* the symbol lists of a map: the parts of a combined symbol are other line,
\* area or combined symbols of the same list
SymbolLists(max) ==
    UNION { { s \in [1..n -> SymbolRecords(n)] :
                \A k \in 1..n : \A p \in s[k].parts :
                    p # k /\ s[p].type \in {"Line", "Area", "Combined"} }
            : n \in 0..max }

ColorLists(max) ==
    UNION { { [k \in 1..n |-> MapColor(k - 1, f[k])] : f \in [1..n -> CmykInputs] }
            : n \in 0..max }

\* a colour list of n equal colours, for the colour count ceiling
UniformColors(n) ==
    [k \in 1..n |-> MapColor(k - 1, [c |-> 0, m |-> 0, y |-> 0, k |-> 1000])]

\* the objects that can use the symbols of the map
ObjectInputs ==
    { [type |-> "Point", symbol |-> s] :
        s \in { k \in DOMAIN map_symbols : map_symbols[k].type = "Point" } }
    \cup
    { [type |-> "Path", symbol |-> s] :
        s \in { k \in DOMAIN map_symbols :
                  map_symbols[k].type \in {"Line", "Area", "Combined"} } }
    \cup
    { [type |-> "Text", symbol |-> s, halign |-> h, single_anchor |-> a] :
        s \in { k \in DOMAIN map_symbols : map_symbols[k].type = "Text" },
        h \in HorizontalAlignments, a \in BOOLEAN }

(***************************************************************************)
(* libocad lookups used by the exporter.                                   *)
(***************************************************************************)
\* ocad_symbol(file, number): the position of the first record with that
\* number, or 0 for the NULL pointer
ocad_symbol(symbols, number) ==
    IF \E k \in DOMAIN symbols : symbols[k].number = number
    THEN CHOOSE k \in DOMAIN symbols :
             /\ symbols[k].number = number
             /\ \A j \in DOMAIN symbols : symbols[j].number = number => k <= j
    ELSE 0

(***************************************************************************)
(* OCAD8FileExport::exportCommonSymbolFields: the unique legacy number.    *)
(***************************************************************************)
\* while (symbol_numbers.find(number) != end) ++number;   on an s16
RECURSIVE ProbeNumber(_, _)
ProbeNumber(number, numbers) ==
    IF number \in numbers THEN ProbeNumber(ToS16(number + 1), numbers) ELSE number

\* number = component0 * 10 (+ component1 % 10 when component1 >= 0)
CandidateNumber(symbol) ==
    LET base == ToS16(symbol.number[1] * 10)
    IN  IF symbol.number[2] >= 0 THEN ToS16(base + (symbol.number[2] % 10)) ELSE base

\* the number taken without probing the reserved numbers
ExportedNumberNoProbe(symbol, numbers) == CandidateNumber(symbol)

ExportedNumber(symbol, numbers) == ProbeNumber(CandidateNumber(symbol), numbers)

LegacyType(type) ==
    CASE type = "Point" -> OCAD_POINT_SYMBOL
      [] type = "Line"  -> OCAD_LINE_SYMBOL
      [] type = "Area"  -> OCAD_AREA_SYMBOL
      [] type = "Text"  -> OCAD_TEXT_SYMBOL

\* Map::determineSymbolUseClosure: the symbols reachable through parts
RECURSIVE SymbolUseClosure(_)
SymbolUseClosure(S) ==
    LET T == S \cup UNION { map_symbols[k].parts : k \in S }
    IN  IF T = S THEN S ELSE SymbolUseClosure(T)

\* OCAD8FileExport::exportCombinedSymbol
exportCombinedSymbol(k) ==
    UNION { symbol_index[j] : j \in SymbolUseClosure({k}) \cap DOMAIN symbol_index }

\* OCAD8FileExport::setTextSymbolFormatting: the halign written, or the old one
TextSymbolFormatting(old, halign) ==
    CASE halign = "AlignLeft"    -> 0
      [] halign = "AlignHCenter" -> 1
      [] halign = "AlignRight"   -> 2
      [] OTHER                   -> old

\* qRound(1 / 0.005f * v) for v in thousandths
RoundColor(v) == (2 * v + 5) \div 10

(***************************************************************************)
(* OCAD8FileExport::doExport                                               *)
(***************************************************************************)
\* the loop that runs after the colour loop / after the first symbol pass
AfterColors == IF Len(map_symbols) > 0 THEN "export_symbols" ELSE "export_objects"

AfterBegin == IF Len(map_colors) > 0 THEN "export_colors" ELSE AfterColors

\* the colour count that is refused one colour too early
TooManyColorsFrom256(n) == n >= MaxLegacyColors

\* line 1287: map->getNumColors() > 256
TooManyColors(n) == n > MaxLegacyColors

\* the legacy colour record numbered from 1
ExportedColorFrom1(color, index) ==
    [number  |-> index + 1,
     cyan    |-> RoundColor(color.c),
     magenta |-> RoundColor(color.m),
     yellow  |-> RoundColor(color.y),
     black   |-> RoundColor(color.k)]

\* lines 1333-1337: the legacy colour record of the colour at position index
ExportedColor(color, index) ==
    [number  |-> index,
     cyan    |-> RoundColor(color.c),
     magenta |-> RoundColor(color.m),
     yellow  |-> RoundColor(color.y),
     black   |-> RoundColor(color.k)]

\* lines 1287-1323: the colour count check, ocad_file_new, header and setup
ExportBegin ==
    /\ pc = "export_start"
    /\ IF TooManyColors(Len(map_colors))
       THEN /\ pc' = "export_fatal"
            /\ error' = "too many colors"
            /\ file' = file
       ELSE \E err \in {0, 1} :
               IF err # 0
               THEN /\ pc' = "export_fatal"
                    /\ error' = "ocad_file_new"
                    /\ file' = file
               ELSE /\ pc' = AfterBegin
                    /\ error' = error
                    /\ file' = "open"
    /\ i' = 0
    /\ UNCHANGED <<undo_vars, load_vars, stream, stream_written, header_major, map_colors, map_symbols,
                   map_objects, ocad_colors, ocad_symbols, ocad_objects,
                   symbol_numbers, symbol_index, text_format_map, color_index,
                   warnings, last, arg, res>>

\* lines 1326-1340: one iteration of the colour loop
ExportColor ==
    /\ pc = "export_colors"
    /\ i < Len(map_colors)
    /\ ocad_colors' = Append(ocad_colors, ExportedColor(map_colors[i + 1], i))
    /\ IF i + 1 < Len(map_colors)
       THEN i' = i + 1 /\ pc' = pc
       ELSE i' = 0 /\ pc' = AfterColors
    /\ UNCHANGED <<undo_vars, load_vars, stream, stream_written, file, header_major, map_colors,
                   map_symbols, map_objects, ocad_symbols, ocad_objects,
                   symbol_numbers, symbol_index, text_format_map, color_index,
                   warnings, error, last, arg, res>>

\* lines 1343-1367: one iteration of the first symbol pass
ExportSymbol ==
    /\ pc = "export_symbols"
    /\ i < Len(map_symbols)
    /\ LET symbol == map_symbols[i + 1]
           number == ExportedNumber(symbol, symbol_numbers)
       IN  IF symbol.type = "Combined"
           THEN UNCHANGED <<undo_vars, load_vars, ocad_symbols, symbol_numbers, symbol_index>>
           ELSE /\ ocad_symbols' = Append(ocad_symbols,
                       [number |-> number, type |-> LegacyType(symbol.type),
                        halign |-> 0])
                /\ symbol_numbers' = symbol_numbers \cup {number}
                /\ symbol_index' =
                       IF number >= 0
                       THEN (i + 1 :> {number}) @@ symbol_index
                       ELSE symbol_index
    /\ IF i + 1 < Len(map_symbols)
       THEN i' = i + 1 /\ pc' = pc
       ELSE i' = 0 /\ pc' = "export_combined"
    /\ UNCHANGED <<undo_vars, load_vars, stream, stream_written, file, header_major, map_colors,
                   map_symbols, map_objects, ocad_colors, ocad_objects,
                   text_format_map, color_index, warnings, error, last, arg, res>>

\* lines 1369-1375: one iteration of the second symbol pass
ExportCombined ==
    /\ pc = "export_combined"
    /\ i < Len(map_symbols)
    /\ symbol_index' =
           IF map_symbols[i + 1].type = "Combined"
           THEN (i + 1 :> exportCombinedSymbol(i + 1)) @@ symbol_index
           ELSE symbol_index
    /\ IF i + 1 < Len(map_symbols)
       THEN i' = i + 1 /\ pc' = pc
       ELSE i' = 0 /\ pc' = "export_objects"
    /\ UNCHANGED <<undo_vars, load_vars, stream, stream_written, file, header_major, map_colors,
                   map_symbols, map_objects, ocad_colors, ocad_symbols,
                   ocad_objects, symbol_numbers, text_format_map, color_index,
                   warnings, error, last, arg, res>>

(***************************************************************************)
(* The object loop of doExport, lines 1378-1503.  The state threaded       *)
(* through the inner loop over the object's number set is the record       *)
(*   [symbols, numbers, formats, objects, crashed].                        *)
(***************************************************************************)
\* the first entry of a TextFormatList whose object has this alignment, or 0
FindFormat(format_list, objects, halign) ==
    LET hits == { e \in 1..Len(format_list) :
                    objects[format_list[e].object].halign = halign }
    IN  IF hits = {} THEN 0 ELSE CHOOSE e \in hits : \A f \in hits : e <= f

\* lines 1420-1470: the legacy symbol a text object is exported with.
\* objects is the object list with the current object at position o; it is one
\* number of the object's number set.  The result is the threaded state plus
\* index_to_use.  Dereferencing the NULL returned by ocad_symbol() ends the
\* export (crashed).
TextObjectSymbol(st, objects, o, it) ==
    LET object      == objects[o]
        text_symbol == object.symbol
        k           == ocad_symbol(st.symbols, it)
    IN  IF text_symbol \notin DOMAIN st.formats
        THEN IF k = 0
             THEN [st EXCEPT !.crashed = TRUE] @@ [index_to_use |-> it]
             ELSE [st EXCEPT
                      !.symbols = [st.symbols EXCEPT ![k].halign =
                                      TextSymbolFormatting(@, object.halign)],
                      !.formats = (text_symbol :> <<[object |-> o, number |-> it]>>)
                                      @@ st.formats]
                  @@ [index_to_use |-> it]
        ELSE LET format_list == st.formats[text_symbol]
                 e           == FindFormat(format_list, objects, object.halign)
             IN  IF e # 0
                 THEN st @@ [index_to_use |-> format_list[e].number]
                 ELSE IF k = 0
                 THEN [st EXCEPT !.crashed = TRUE] @@ [index_to_use |-> it]
                 ELSE LET number == ProbeNumber(st.symbols[k].number, st.numbers)
                          new_symbol ==
                              [st.symbols[k] EXCEPT
                                  !.halign = TextSymbolFormatting(@, object.halign),
                                  !.number = number]
                      IN  [st EXCEPT
                              !.symbols = Append(st.symbols, new_symbol),
                              !.numbers = st.numbers \cup {number},
                              !.formats = [st.formats EXCEPT ![text_symbol] =
                                  Append(@, [object |-> o, number |-> number])]]
                          @@ [index_to_use |-> number]

\* lines 1472-1492: the type tag of the legacy object record
ObjectTypeTag(symbols, object, index_to_use) ==
    CASE object.type = "Point" -> 1
      [] object.type = "Path" ->
             LET k == ocad_symbol(symbols, index_to_use)
             IN  IF k = 0 THEN 2
                 ELSE IF symbols[k].type = 2 THEN 2 ELSE 3
      [] object.type = "Text" -> IF object.single_anchor THEN 4 ELSE 5

\* lines 1417-1500: the body of the loop over the number set.  The field
\* object of a legacy object record is bookkeeping: the position of the map
\* object the record was written for.
EmitRecord(st, objects, o, it) ==
    LET object == objects[o]
        t  == IF object.type = "Text"
              THEN TextObjectSymbol(st, objects, o, it)
              ELSE st @@ [index_to_use |-> it]
    IN  IF t.crashed
        THEN [st EXCEPT !.crashed = TRUE]
        ELSE [symbols |-> t.symbols, numbers |-> t.numbers, formats |-> t.formats,
              crashed |-> FALSE,
              objects |-> Append(t.objects,
                  [symbol |-> t.index_to_use,
                   type   |-> ObjectTypeTag(t.symbols, object, t.index_to_use),
                   object |-> o])]

RECURSIVE EmitRecords(_, _, _, _)
EmitRecords(st, objects, o, its) ==
    IF its = <<>> \/ st.crashed THEN st
    ELSE EmitRecords(EmitRecord(st, objects, o, Head(its)), objects, o, Tail(its))

\* lines 1409-1413: the number set of the object's symbol
IndexSet(object) ==
    IF object.symbol \in DOMAIN symbol_index THEN symbol_index[object.symbol] ELSE {-1}

\* lines 1381-1502: one iteration of the object loop
ExportObject ==
    /\ pc = "export_objects"
    /\ Len(map_objects) < MaxObjects
    /\ \E object \in ObjectInputs :
         LET objects == Append(map_objects, object)
             st == EmitRecords(
                     [symbols |-> ocad_symbols, numbers |-> symbol_numbers,
                      formats |-> text_format_map, objects |-> ocad_objects,
                      crashed |-> FALSE],
                     objects, Len(objects), SortedSeq(IndexSet(object)))
         IN  /\ map_objects' = objects
             /\ ocad_symbols' = st.symbols
             /\ symbol_numbers' = st.numbers
             /\ text_format_map' = st.formats
             /\ ocad_objects' = st.objects
             /\ pc' = IF st.crashed THEN "export_crashed" ELSE pc
    /\ UNCHANGED <<undo_vars, load_vars, stream, stream_written, file, header_major, map_colors,
                   map_symbols, ocad_colors, symbol_index, color_index, warnings,
                   error, i, last, arg, res>>

\* lines 1520-1522: write the buffer and close the legacy file
ExportFinish ==
    /\ pc = "export_objects"
    /\ stream_written' = TRUE
    /\ file' = "closed"
    /\ pc' = "export_done"
    /\ UNCHANGED <<undo_vars, load_vars, stream, header_major, map_colors, map_symbols, map_objects,
                   ocad_colors, ocad_symbols, ocad_objects, symbol_numbers,
                   symbol_index, text_format_map, color_index, warnings, error, i,
                   last, arg, res>>

ExportNext ==
    \/ ExportBegin
    \/ ExportColor
    \/ ExportSymbol
    \/ ExportCombined
    \/ ExportObject
    \/ ExportFinish

\* the maps exported: up to MaxSymbols symbols and at most one colour, or no
\* symbol and up to MaxColors colours, or no symbol and a colour count at the
\* ceiling of the format
\* symbol lists with a combined symbol of two simple parts
CombinedOfTwoLists ==
    { <<[type |-> "Line", number |-> <<1, 7>>, parts |-> {}],
        [type |-> t, number |-> n, parts |-> {}],
        [type |-> "Combined", number |-> c, parts |-> {1, 2}]>> :
        t \in {"Line", "Area"}, n \in NumberInputs, c \in NumberInputs }

ExportInputs ==
    (ColorLists(1) \X (SymbolLists(MaxSymbols) \cup CombinedOfTwoLists))
    \cup ((ColorLists(MaxColors)
             \cup {UniformColors(MaxLegacyColors), UniformColors(MaxLegacyColors + 1)})
          \X {<<>>})

\* the exporter after construction: the stream is open, nothing is exported
InitExport ==
    /\ pc = "export_start"
    /\ stream = "open"
    /\ stream_written = FALSE
    /\ file = "null"
    /\ header_major = 0
    /\ \E input \in ExportInputs : map_colors = input[1] /\ map_symbols = input[2]
    /\ map_objects = <<>>
    /\ ocad_colors = <<>>
    /\ ocad_symbols = <<>>
    /\ ocad_objects = <<>>
    /\ symbol_numbers = {}
    /\ symbol_index = << >>
    /\ text_format_map = << >>
    /\ color_index = << >>
    /\ warnings = <<>>
    /\ error = "none"
    /\ i = 0
    /\ last = NoCall
    /\ arg = NoValue
    /\ res = NoValue
    /\ NoLoad
    /\ NoUndo

SpecExport == InitExport /\ [][ExportNext]_vars

(***************************************************************************)
(* OCAD8FileImport::doImport                                               *)
(***************************************************************************)
\* file->header->major of the files handed to the importer
MajorInputs == 4..10

\* the colour records of a legacy file: any ordinal, components on the 0-200
\* scale
LegacyColorInputs ==
    { [number |-> n, cyan |-> v[1], magenta |-> v[2], yellow |-> v[3], black |-> v[4]] :
        n \in {0, 1, 5}, v \in { <<0, 0, 0, 200>>, <<100, 47, 1, 0>> } }

LegacyColorTables(max) == UNION { [1..n -> LegacyColorInputs] : n \in 0..max }

\* the legacy colour ordinals looked up by symbols and pattern elements
OrdinalInputs == {0, 1, 5, 77}

\* the version test that lets versions 5 and 9 through
VersionRejectedOutside5To9(major) == major < 5 \/ major > 9

\* line 86: the versions that cannot be loaded
VersionRejected(major) == major <= 5 \/ major >= 9

\* lines 78-95: close the stream, open the file with libocad, check the version
ImportBegin ==
    /\ pc = "import_start"
    /\ stream' = "closed"
    /\ \E err \in {0, 1} :
         IF err # 0
         THEN /\ pc' = "import_fatal"
              /\ error' = "could not open file"
              /\ file' = file
         ELSE /\ file' = "open"
              /\ IF VersionRejected(header_major)
                 THEN pc' = "import_fatal" /\ error' = "version"
                 ELSE /\ pc' = IF Len(ocad_colors) > 0 THEN "import_colors"
                                                       ELSE "import_symbols"
                      /\ error' = error
    /\ i' = 0
    /\ UNCHANGED <<undo_vars, load_vars, stream_written, header_major, map_colors, map_symbols,
                   map_objects, ocad_colors, ocad_symbols, ocad_objects,
                   symbol_numbers, symbol_index, text_format_map, color_index,
                   warnings, last, arg, res>>

\* the imported colour with the priority counted from 1
ImportedColorFrom1(ocad_color, index) ==
    MapColor(index + 1, [c |-> 5 * ocad_color.cyan, m |-> 5 * ocad_color.magenta,
                         y |-> 5 * ocad_color.yellow, k |-> 5 * ocad_color.black])

\* lines 108-118: the MapColor made from the legacy record at position index
ImportedColor(ocad_color, index) ==
    MapColor(index, [c |-> 5 * ocad_color.cyan, m |-> 5 * ocad_color.magenta,
                     y |-> 5 * ocad_color.yellow, k |-> 5 * ocad_color.black])

\* lines 104-122: one iteration of the colour loop.  color_index maps a legacy
\* ordinal to the position of the MapColor in the map's colour list.
ImportColor ==
    /\ pc = "import_colors"
    /\ i < Len(ocad_colors)
    /\ LET ocad_color == ocad_colors[i + 1]
       IN  /\ map_colors' = Append(map_colors, ImportedColor(ocad_color, i))
           /\ color_index' = (ocad_color.number :> Len(map_colors) + 1) @@ color_index
    /\ IF i + 1 < Len(ocad_colors)
       THEN i' = i + 1 /\ pc' = pc
       ELSE i' = 0 /\ pc' = "import_symbols"
    /\ UNCHANGED <<undo_vars, load_vars, stream, stream_written, file, header_major, map_symbols,
                   map_objects, ocad_colors, ocad_symbols, ocad_objects,
                   symbol_numbers, symbol_index, text_format_map, warnings, error,
                   last, arg, res>>

\* the lookup that falls back to the first colour without a warning
convertColorSilent(color) ==
    IF color \in DOMAIN color_index
    THEN [result |-> color_index[color], warnings |-> <<>>]
    ELSE [result |-> 0, warnings |-> <<>>]

\* lines 1253-1261, OCAD8FileImport::convertColor: the position of the MapColor
\* (0 for the null colour) and the warnings added
convertColor(color) ==
    IF color \notin DOMAIN color_index
    THEN [result |-> 0,
          warnings |-> << [text |-> "Color id not found, ignoring this color",
                           id |-> color] >>]
    ELSE [result |-> color_index[color], warnings |-> <<>>]

\* a symbol or pattern element of the symbol loop (lines 125-188) converting
\* one of its colour ordinals; last keeps the call and what it returned
ImportConvertColor ==
    /\ pc = "import_symbols"
    /\ i < MaxLookups
    /\ \E color \in OrdinalInputs :
         LET r == convertColor(color)
         IN  /\ warnings' = warnings \o r.warnings
             /\ last' = [op |-> "convertColor", color |-> color, result |-> r.result,
                         warnings_before |-> Len(warnings)]
    /\ i' = i + 1
    /\ UNCHANGED <<undo_vars, load_vars, pc, stream, stream_written, file, header_major, map_colors,
                   map_symbols, map_objects, ocad_colors, ocad_symbols,
                   ocad_objects, symbol_numbers, symbol_index, text_format_map,
                   color_index, error, arg, res>>

\* line 262: ocad_file_close(file)
ImportFinish ==
    /\ pc = "import_symbols"
    /\ file' = "closed"
    /\ pc' = "import_done"
    /\ UNCHANGED <<undo_vars, load_vars, stream, stream_written, header_major, map_colors, map_symbols,
                   map_objects, ocad_colors, ocad_symbols, ocad_objects,
                   symbol_numbers, symbol_index, text_format_map, color_index,
                   warnings, error, i, last, arg, res>>

ImportNext ==
    \/ ImportBegin
    \/ ImportColor
    \/ ImportConvertColor
    \/ ImportFinish

\* the importer after construction: an empty map, the stream open, and a
\* legacy file with some version and colour table
InitImport ==
    /\ pc = "import_start"
    /\ stream = "open"
    /\ stream_written = FALSE
    /\ file = "null"
    /\ header_major \in MajorInputs
    /\ map_colors = <<>>
    /\ map_symbols = <<>>
    /\ map_objects = <<>>
    /\ ocad_colors \in LegacyColorTables(MaxColors)
    /\ ocad_symbols = <<>>
    /\ ocad_objects = <<>>
    /\ symbol_numbers = {}
    /\ symbol_index = << >>
    /\ text_format_map = << >>
    /\ color_index = << >>
    /\ warnings = <<>>
    /\ error = "none"
    /\ i = 0
    /\ last = NoCall
    /\ arg = NoValue
    /\ res = NoValue
    /\ NoLoad
    /\ NoUndo

SpecImport == InitImport /\ [][ImportNext]_vars

\* both directions of the codec
Init == InitImport \/ InitExport

Next == ImportNext \/ ExportNext

Spec == Init /\ [][Next]_vars

(***************************************************************************)
(* The scalar conversions.  A qint64 is the record [hi, lo] standing for   *)
(* hi * 65536 + lo with lo in 0..65535, so that values beyond 32 bits can  *)
(* be computed; an s32 or an int is a plain integer.                       *)
(***************************************************************************)
\* (qint64)v for an int v
Wide(v) == [hi |-> v \div 65536, lo |-> v % 65536]

WideNeg(w) ==
    IF w.lo = 0 THEN [hi |-> -w.hi, lo |-> 0]
    ELSE [hi |-> -w.hi - 1, lo |-> 65536 - w.lo]

WideAdd(a, b) ==
    [hi |-> a.hi + b.hi + ((a.lo + b.lo) \div 65536), lo |-> (a.lo + b.lo) % 65536]

\* w * 10
WideMul10(w) ==
    [hi |-> w.hi * 10 + ((w.lo * 10) \div 65536), lo |-> (w.lo * 10) % 65536]

\* w / 10 of C++, which truncates toward zero
WideDiv10(w) ==
    LET floor10(p) == [hi |-> p.hi \div 10, lo |-> ((p.hi % 10) * 65536 + p.lo) \div 10]
    IN  IF w.hi < 0 THEN WideNeg(floor10(WideNeg(w))) ELSE floor10(w)

\* (s32)w: the low 32 bits as a signed integer
CastS32(w) == ToS16(w.hi) * 65536 + w.lo

\* the s32 that v << 8 leaves: the low 24 bits of v, moved up by 8 bits
ShiftLeft8(v) ==
    LET m == v % 16777216
    IN  (IF m >= 8388608 THEN m - 16777216 ELSE m) * 256

\* OCAD8FileImport::offset_x and offset_y, set by the constructor
offset_x == 0

offset_y == 0

\* the import conversion with the factor 100
convertSizeImportTimes100(ocad_size) == WideMul10(WideMul10(Wide(ocad_size)))

\* lines 1247-1251, OCAD8FileImport::convertSize
convertSizeImport(ocad_size) == WideMul10(Wide(ocad_size))

\* lines 2299-2302, OCAD8FileExport::convertSize
convertSizeExport(size) == CastS32(WideDiv10(size))

\* lines 1238-1245, OCAD8FileImport::convertPoint
convertPointImport(ocad_x, ocad_y) ==
    [x |-> WideAdd(Wide(offset_x), WideMul10(Wide(ocad_x))),
     y |-> WideAdd(Wide(offset_y), WideNeg(WideMul10(Wide(ocad_y))))]

\* the export conversion that forgets to flip the Y axis
convertPointExportNoFlip(x, y) ==
    [x |-> ShiftLeft8(CastS32(WideDiv10(x))),
     y |-> ShiftLeft8(CastS32(WideDiv10(y)))]

\* lines 2287-2293, OCAD8FileExport::convertPoint
convertPointExport(x, y) ==
    [x |-> ShiftLeft8(CastS32(WideDiv10(x))),
     y |-> ShiftLeft8(CastS32(WideNeg(WideDiv10(y))))]

\* lines 2037-2040, OCAD8FileExport::exportCoordinates: the shift is done on
\* the qint64 and the result stored in the s32 fields of the OCADPoint
exportCoordinatesPoint(x, y) ==
    [x |-> ShiftLeft8(CastS32(WideDiv10(x))),
     y |-> ShiftLeft8(CastS32(WideNeg(WideDiv10(y))))]

\* libocad's ocad_point: the coordinates above the 8 flag bits
ocad_point(p) == <<p.x \div 256, p.y \div 256>>

\* 2 * M_PI in the unit of the rotation model, pi / 1800
TwoPi == 3600

\* lines 1228-1236, OCAD8FileImport::convertRotation.  An angle in radians is
\* kept as the integer number of pi / 1800 units, the rounding of the float
\* arithmetic left out.
RECURSIVE convertRotationImport(_)
convertRotationImport(angle) ==
    IF angle < 0 THEN convertRotationImport(angle + TwoPi) ELSE angle

\* lines 2282-2285, OCAD8FileExport::convertRotation: qRound(10 * (a * 180 / pi))
convertRotationExport(radians) == radians

(***************************************************************************)
(* The hatch loop of OCAD8FileExport::exportAreaSymbol.  A fill pattern    *)
(* carries the index map->findColorIndex gives for its line colour.        *)
(***************************************************************************)
\* lines 2304-2308, OCAD8FileExport::convertColor, of the index found
convertColorExport(index) == IF index > 0 THEN index ELSE 0

\* the warning of line 1870
SkippedPatternWarning == [text |-> "In area symbol, skipping a fill pattern."]

\* lines 1865-1894: one fill pattern of the hatch loop.  ocad is the record
\* under construction; written collects the positions of the patterns that
\* went into the record, stop is the break of line 1893.
exportHatchPattern(ocad, pattern, k) ==
    IF pattern.type # "LinePattern" THEN ocad
    ELSE IF ocad.hmode = 1 /\ ocad.hcolor # convertColorExport(pattern.line_color)
    THEN [ocad EXCEPT !.warnings = Append(@, SkippedPatternWarning)]
    ELSE LET flags == IF pattern.rotatable /\ ~HasBit(ocad.base_flags, 1)
                      THEN ocad.base_flags + 1 ELSE ocad.base_flags
             hwidth == convertSizeExport(Wide(pattern.line_width))
             hdist == convertSizeExport(Wide(pattern.line_spacing - pattern.line_width))
         IN  IF ocad.hmode = 0
             THEN [ocad EXCEPT !.base_flags = flags, !.hmode = 1,
                               !.hcolor = convertColorExport(pattern.line_color),
                               !.hwidth = hwidth, !.hdist = hdist,
                               !.hangle1 = convertRotationExport(pattern.angle),
                               !.written = @ \cup {k}]
             ELSE [ocad EXCEPT !.base_flags = flags, !.hmode = 2,
                               !.hwidth = CDiv(@ + hwidth, 2),
                               !.hdist = CDiv(@ + hdist, 2),
                               !.hangle2 = convertRotationExport(pattern.angle),
                               !.written = @ \cup {k},
                               !.stop = TRUE]

\* lines 1863-1896: the hatch loop from pattern k on
RECURSIVE exportHatch(_, _, _)
exportHatch(ocad, patterns, k) ==
    IF k > Len(patterns) \/ ocad.stop THEN ocad
    ELSE exportHatch(exportHatchPattern(ocad, patterns[k], k), patterns, k + 1)

\* the fill patterns of the area symbols exported
FillPatternInputs ==
    { [type |-> "LinePattern", line_color |-> c, line_width |-> 100,
       line_spacing |-> 500, angle |-> a, rotatable |-> r] :
          c \in {1, 2}, a \in {0, 900}, r \in BOOLEAN }
    \cup { [type |-> "PointPattern"] }

(***************************************************************************)
(* The string encoder of the export.  A QString is the sequence of its     *)
(* UTF-16 code units, a buffer the sequence of the bytes written to it.    *)
(***************************************************************************)
\* the width of the name and font fields of the legacy records
NameFieldWidth == 32

\* encoding_1byte->fromUnicode for one code unit, the codec being
\* Windows-1252: one byte per code unit, '?' for what has no code point
FromUnicode1252(c) ==
    IF c < 128 \/ (c >= 160 /\ c <= 255) THEN c
    ELSE IF c = 8364 THEN 128
    ELSE 63

\* lines 2310-2315, OCAD8FileExport::addStringTruncationWarning
StringTruncationWarning(text, truncation_pos) ==
    [text |-> "String truncated (truncation marked with three '|')",
     marked |-> SubSeq(text, 1, truncation_pos) \o <<124, 124, 124>>
                \o SubSeq(text, truncation_pos + 1, Len(text))]

\* the encoder that writes the untruncated length into the length byte
convertPascalStringFullLength(text, buffer_size) ==
    LET max_size == buffer_size - 1
        min_size == IF Len(text) < max_size THEN Len(text) ELSE max_size
    IN  [written |-> <<Len(text) % 256>>
                     \o [k \in 1..min_size |-> FromUnicode1252(text[k])],
         warnings |-> IF Len(text) > max_size
                      THEN <<StringTruncationWarning(text, max_size)>> ELSE <<>>]

\* lines 2230-2242, OCAD8FileExport::convertPascalString: the bytes written to
\* the buffer, from its first byte on, and the warnings added
convertPascalStringExport(text, buffer_size) ==
    LET max_size == buffer_size - 1
        min_size == IF Len(text) < max_size THEN Len(text) ELSE max_size
    IN  [written |-> <<min_size % 256>>
                     \o [k \in 1..min_size |-> FromUnicode1252(text[k])],
         warnings |-> IF Len(text) > max_size
                      THEN <<StringTruncationWarning(text, max_size)>> ELSE <<>>]

\* the code units of the texts: 'A', e acute, the euro sign, a Cyrillic letter
CodeUnitInputs == {65, 233, 8364, 1071}

\* short texts of any content, and long texts around the field widths
TextInputs ==
    UNION { [1..n -> CodeUnitInputs] : n \in 0..MaxText }
    \cup { [k \in 1..n |-> 65] : n \in {30, 31, 32, 254, 255, 256, 300} }

\* the widths of the fields: the smallest ones, the name fields, the largest
BufferSizeInputs == {1, 2, 3, NameFieldWidth, 256}

(***************************************************************************)
(* Symbol (symbol.cpp): the common fields of a symbol, the copy of them    *)
(* that every duplicate() of a subclass makes into a symbol it has just    *)
(* constructed, and the comparison of them.  A string is a sequence of     *)
(* code units.                                                             *)
(***************************************************************************)
\* Symbol::Symbol (symbol.cpp lines 50-58)
NewSymbol(type) ==
    [type |-> type, number |-> <<-1, -1, -1>>,
     is_helper_symbol |-> FALSE, is_hidden |-> FALSE, is_protected |-> FALSE]

\* Symbol::Symbol with the members it default-constructs: the empty name
\* and description and the null icon
NewNamedSymbol(type) ==
    [name |-> <<>>, description |-> <<>>, icon |-> "null"] @@ NewSymbol(type)

\* symbol.cpp lines 593-603, Symbol::duplicateImplCommon: the fields it
\* assigns over the fields the symbol has
duplicateImplCommon(symbol, other) ==
    [type |-> other.type, name |-> other.name, number |-> other.number,
     description |-> other.description,
     is_helper_symbol |-> other.is_helper_symbol,
     is_hidden |-> other.is_hidden, icon |-> other.icon]
    @@ symbol

\* QChar::toCaseFolded for the Latin letters: 'a'..'z' fold to 'A'..'Z'
FoldCase(text) ==
    [k \in 1..Len(text) |->
        IF text[k] >= 97 /\ text[k] <= 122 THEN text[k] - 32 ELSE text[k]]

\* QString::compare(other, case_sensitivity) == 0
SameText(a, b, case_sensitivity) ==
    IF case_sensitivity = "CaseSensitive" THEN a = b ELSE FoldCase(a) = FoldCase(b)

\* symbol.cpp lines 69-75: the loop over the number components, which ends
\* at the first component that is unset in both symbols
RECURSIVE SameNumber(_, _, _)
SameNumber(a, b, k) ==
    IF k > Len(a) THEN TRUE
    ELSE IF a[k] # b[k] THEN FALSE
    ELSE IF a[k] = -1 /\ b[k] = -1 THEN TRUE
    ELSE SameNumber(a, b, k + 1)

\* symbol.cpp lines 65-88, Symbol::equals, up to the call of equalsImpl
equals(symbol, other, case_sensitivity, compare_state) ==
    IF symbol.type # other.type THEN FALSE
    ELSE IF ~SameNumber(symbol.number, other.number, 1) THEN FALSE
    ELSE IF symbol.is_helper_symbol # other.is_helper_symbol THEN FALSE
    ELSE IF compare_state /\ (symbol.is_hidden # other.is_hidden
                              \/ symbol.is_protected # other.is_protected) THEN FALSE
    ELSE IF ~SameText(symbol.name, other.name, case_sensitivity) THEN FALSE
    ELSE SameText(symbol.description, other.description, case_sensitivity)

\* the names and descriptions: empty, "A", "a", "B"
SymbolTextInputs == { <<>>, <<65>>, <<97>>, <<66>> }

\* the numbers: unset, one, two and three components
SymbolNumberInputs == { <<-1, -1, -1>>, <<1, -1, -1>>, <<1, 7, -1>>, <<1, 7, 2>> }

\* the symbols a duplicate() is called on
DuplicateInputs ==
    { [type |-> t, number |-> n, name |-> f[1], description |-> f[2],
       is_helper_symbol |-> b[1], is_hidden |-> b[2], is_protected |-> b[3],
       icon |-> "null"] :
        t \in SymbolTypes, n \in SymbolNumberInputs,
        f \in SymbolTextInputs \X {<<>>, <<66>>},
        b \in BOOLEAN \X BOOLEAN \X BOOLEAN }

(***************************************************************************)
(* The harness of the scalar conversions: one input, one conversion.       *)
(***************************************************************************)
\* 2^31 - 1
MaxS32 == 2147483647

\* the modern sizes: small ones, and the ones around the 32-bit range of the
\* legacy field
SizeInputs ==
    { Wide(v) : v \in -MaxScalar..MaxScalar }
    \cup { WideMul10(Wide(MaxS32)),
           WideAdd(WideMul10(Wide(MaxS32)), Wide(10)),
           WideMul10(Wide(-MaxS32 - 1)),
           WideAdd(WideMul10(Wide(-MaxS32 - 1)), Wide(-10)) }

OcadSizeInputs == (-MaxScalar..MaxScalar) \cup {MaxS32, -MaxS32 - 1}

\* legacy coordinates: the 24 bits above the flag byte
OcadCoordInputs == (-MaxCoord..MaxCoord) \cup {-8388608, -8388607, 8388606, 8388607}

AngleInputs ==
    (-MaxScalar..MaxScalar)
    \cup {-7200, -3601, -3600, -3599, -1800, 900, 1800, 3599, 3600, 3601, 7200}

ScalarInputs ==
    { [kind |-> "size", size |-> w] : w \in SizeInputs }
    \cup { [kind |-> "ocad_size", ocad_size |-> v] : v \in OcadSizeInputs }
    \cup { [kind |-> "ocad_point", x |-> v[1], y |-> v[2]] :
             v \in OcadCoordInputs \X OcadCoordInputs }
    \cup { [kind |-> "angle", angle |-> a] : a \in AngleInputs }
    \cup { [kind |-> "string", text |-> t, buffer_size |-> w] :
             t \in TextInputs, w \in BufferSizeInputs }
    \cup { [kind |-> "area", patterns |-> f] :
             f \in SeqsUpTo(FillPatternInputs, MaxPatterns) }
    \cup { [kind |-> "symbol", symbol |-> o] : o \in DuplicateInputs }

\* export a size and import the result
ScalarEncodeSize ==
    /\ pc = "scalar"
    /\ arg.kind = "size"
    /\ LET ocad_size == convertSizeExport(arg.size)
       IN  res' = [op |-> "encodeSize", ocad_size |-> ocad_size,
                   back |-> convertSizeImport(ocad_size)]
    /\ pc' = "scalar_done"
    /\ UNCHANGED <<undo_vars, load_vars, stream, stream_written, file, header_major, map_colors,
                   map_symbols, map_objects, ocad_colors, ocad_symbols,
                   ocad_objects, symbol_numbers, symbol_index, text_format_map,
                   color_index, warnings, error, i, last, arg>>

\* import a size and export the result
ScalarDecodeSize ==
    /\ pc = "scalar"
    /\ arg.kind = "ocad_size"
    /\ LET size == convertSizeImport(arg.ocad_size)
       IN  res' = [op |-> "decodeSize", size |-> size, back |-> convertSizeExport(size)]
    /\ pc' = "scalar_done"
    /\ UNCHANGED <<undo_vars, load_vars, stream, stream_written, file, header_major, map_colors,
                   map_symbols, map_objects, ocad_colors, ocad_symbols,
                   ocad_objects, symbol_numbers, symbol_index, text_format_map,
                   color_index, warnings, error, i, last, arg>>

\* import a legacy point, export it both ways, and decode the exported points
ScalarPoint ==
    /\ pc = "scalar"
    /\ arg.kind = "ocad_point"
    /\ LET coord == convertPointImport(arg.x, arg.y)
       IN  res' = [op |-> "point", coord |-> coord,
                   decoded |-> ocad_point(convertPointExport(coord.x, coord.y)),
                   decoded_path |-> ocad_point(exportCoordinatesPoint(coord.x, coord.y))]
    /\ pc' = "scalar_done"
    /\ UNCHANGED <<undo_vars, load_vars, stream, stream_written, file, header_major, map_colors,
                   map_symbols, map_objects, ocad_colors, ocad_symbols,
                   ocad_objects, symbol_numbers, symbol_index, text_format_map,
                   color_index, warnings, error, i, last, arg>>

\* import a rotation and export the result
ScalarRotation ==
    /\ pc = "scalar"
    /\ arg.kind = "angle"
    /\ LET radians == convertRotationImport(arg.angle)
       IN  res' = [op |-> "rotation", radians |-> radians,
                   back |-> convertRotationExport(radians)]
    /\ pc' = "scalar_done"
    /\ UNCHANGED <<undo_vars, load_vars, stream, stream_written, file, header_major, map_colors,
                   map_symbols, map_objects, ocad_colors, ocad_symbols,
                   ocad_objects, symbol_numbers, symbol_index, text_format_map,
                   color_index, warnings, error, i, last, arg>>

\* export a text into a length-prefixed field
ScalarPascalString ==
    /\ pc = "scalar"
    /\ arg.kind = "string"
    /\ LET r == convertPascalStringExport(arg.text, arg.buffer_size)
       IN  /\ res' = [op |-> "pascalString", written |-> r.written]
           /\ warnings' = warnings \o r.warnings
    /\ pc' = "scalar_done"
    /\ UNCHANGED <<undo_vars, load_vars, stream, stream_written, file, header_major, map_colors,
                   map_symbols, map_objects, ocad_colors, ocad_symbols,
                   ocad_objects, symbol_numbers, symbol_index, text_format_map,
                   color_index, error, i, last, arg>>

\* export the hatch of an area symbol with the fill patterns given, from the
\* zeroed record of ocad_symbol_new
ScalarAreaHatch ==
    /\ pc = "scalar"
    /\ arg.kind = "area"
    /\ LET ocad == exportHatch([hmode |-> 0, hcolor |-> 0, hwidth |-> 0, hdist |-> 0,
                                hangle1 |-> 0, hangle2 |-> 0, base_flags |-> 0,
                                warnings |-> <<>>, written |-> {}, stop |-> FALSE],
                               arg.patterns, 1)
       IN  /\ res' = [op |-> "areaHatch", ocad_symbol |-> ocad]
           /\ warnings' = warnings \o ocad.warnings
    /\ pc' = "scalar_done"
    /\ UNCHANGED <<undo_vars, load_vars, stream, stream_written, file, header_major, map_colors,
                   map_symbols, map_objects, ocad_colors, ocad_symbols,
                   ocad_objects, symbol_numbers, symbol_index, text_format_map,
                   color_index, error, i, last, arg>>

\* duplicate(): construct a symbol of the same type, copy the common fields
\* into it, and compare the copy with the original both ways
ScalarDuplicate ==
    /\ pc = "scalar"
    /\ arg.kind = "symbol"
    /\ LET new_symbol == duplicateImplCommon(NewNamedSymbol(arg.symbol.type), arg.symbol)
       IN  res' = [op |-> "duplicate", symbol |-> new_symbol,
                   equal |-> [c \in {"CaseSensitive", "CaseInsensitive"} |->
                                 equals(new_symbol, arg.symbol, c, TRUE)],
                   equal_without_state |->
                       equals(new_symbol, arg.symbol, "CaseSensitive", FALSE)]
    /\ pc' = "scalar_done"
    /\ UNCHANGED <<undo_vars, load_vars, stream, stream_written, file, header_major, map_colors,
                   map_symbols, map_objects, ocad_colors, ocad_symbols,
                   ocad_objects, symbol_numbers, symbol_index, text_format_map,
                   color_index, warnings, error, i, last, arg>>

ScalarNext ==
    \/ ScalarDuplicate
    \/ ScalarPascalString
    \/ ScalarAreaHatch
    \/ ScalarEncodeSize
    \/ ScalarDecodeSize
    \/ ScalarPoint
    \/ ScalarRotation

InitScalar ==
    /\ pc = "scalar"
    /\ stream = "closed"
    /\ stream_written = FALSE
    /\ file = "null"
    /\ header_major = 0
    /\ map_colors = <<>>
    /\ map_symbols = <<>>
    /\ map_objects = <<>>
    /\ ocad_colors = <<>>
    /\ ocad_symbols = <<>>
    /\ ocad_objects = <<>>
    /\ symbol_numbers = {}
    /\ symbol_index = << >>
    /\ text_format_map = << >>
    /\ color_index = << >>
    /\ warnings = <<>>
    /\ error = "none"
    /\ i = 0
    /\ last = NoCall
    /\ arg \in ScalarInputs
    /\ res = NoValue
    /\ NoLoad
    /\ NoUndo

SpecScalar == InitScalar /\ [][ScalarNext]_vars

(***************************************************************************)
(* OCAD8FileImport: the symbol table.  A modern symbol is a record of the  *)
(* fields the import sets over the fields its constructor sets; lengths    *)
(* are plain integers, the legacy fields being 16 bits wide.               *)
(***************************************************************************)
OCAD_RECT_SYMBOL == 5

\* convertSize of a 16-bit legacy length, as a plain integer
convertSize16(ocad_size) ==
    LET w == convertSizeImport(ocad_size) IN w.hi * 65536 + w.lo

\* LineSymbol::LineSymbol: the defaults the import relies on
NewLineSymbol ==
    [cap_style |-> "FlatCap", join_style |-> "MiterJoin", dashed |-> FALSE,
     dashes_in_group |-> 1, half_outer_dashes |-> FALSE,
     have_border_lines |-> FALSE, dashed_border |-> FALSE]
    @@ NewSymbol("Line")

\* lines 773-785, OCAD8FileImport::fillCommonSymbolFields
fillCommonSymbolFields(symbol, o) ==
    [name |-> o.name,
     number |-> <<CDiv(o.number, 10), CMod(o.number, 10), -1>>,
     is_helper_symbol |-> FALSE,
     is_protected |-> (HasBit(o.status, 1) \/ symbol.is_protected),
     is_hidden |-> (HasBit(o.status, 2) \/ symbol.is_hidden)]
    @@ symbol

\* a warning of the symbol import: its text and the legacy symbol number
SymbolWarning(text, o) == [text |-> text, symbol |-> o.number]

\* lines 301-331: cap and join style of the main line
CapStyle(ends, default) ==
    CASE ends \in {0, 4} -> "FlatCap"
      [] ends = 1 -> "RoundCap"
      [] ends \in {2, 3, 6} -> "PointedCap"
      [] OTHER -> default

JoinStyle(ends, default) ==
    CASE ends \in {0, 2} -> "BevelJoin"
      [] ends \in {1, 3} -> "RoundJoin"
      [] ends \in {4, 6} -> "MiterJoin"
      [] OTHER -> default

\* elen within len / 2 - 1 .. len / 2 + 1
NearHalf(elen, len) == elen >= CDiv(len, 2) - 1 /\ elen <= CDiv(len, 2) + 1

\* the dash decode that takes the break length from the second gap
DashPatternBreakFromGap2(o) ==
    [fields |-> [dashed |-> TRUE,
                 dash_length |-> convertSize16(o.len),
                 break_length |-> convertSize16(o.gap2)],
     warnings |-> <<>>]

\* lines 338-381: the dash pattern of the main line, as the fields set and
\* the warnings added
DashPattern(o) ==
    IF o.gap > 0 \/ o.gap2 > 0
    THEN IF o.gap2 > 0 /\ o.gap = 0
         THEN [fields |-> [dashed |-> TRUE,
                           dash_length |-> convertSize16(o.len - o.gap2),
                           break_length |-> convertSize16(o.gap2)],
               warnings |->
                   (IF ~NearHalf(o.elen, o.len)
                    THEN <<SymbolWarning("the end length cannot be imported correctly", o)>>
                    ELSE <<>>)
                   \o (IF o.egap # 0
                       THEN <<SymbolWarning("the end gap cannot be imported correctly", o)>>
                       ELSE <<>>)]
         ELSE LET half == o.len # o.elen /\ NearHalf(o.elen, o.len)
                  w_len == IF o.len # o.elen /\ ~NearHalf(o.elen, o.len)
                           THEN <<SymbolWarning("main and end length are different", o)>>
                           ELSE <<>>
                  dash_length == convertSize16(o.len)
                  in_group == convertSize16(o.gap2)
              IN  IF o.gap2 > 0
                  THEN [fields |->
                            [dashed |-> TRUE,
                             dash_length |-> CDiv(dash_length - in_group, 2),
                             break_length |-> convertSize16(o.gap),
                             dashes_in_group |-> 2,
                             in_group_break_length |-> in_group]
                            @@ (IF half THEN [half_outer_dashes |-> TRUE] ELSE << >>),
                        warnings |-> w_len \o
                            (IF o.gap2 # o.egap
                             THEN <<SymbolWarning("gaps D and E are different", o)>>
                             ELSE <<>>)]
                  ELSE [fields |->
                            [dashed |-> TRUE,
                             dash_length |-> dash_length,
                             break_length |-> convertSize16(o.gap)]
                            @@ (IF half THEN [half_outer_dashes |-> TRUE] ELSE << >>),
                        warnings |-> w_len]
    ELSE [fields |-> [segment_length |-> convertSize16(o.len),
                      end_length |-> convertSize16(o.elen)],
          warnings |-> <<>>]

\* lines 284-289: is a main line imported
HasMainLine(o) == o.dmode = 0 \/ o.width > 0

\* lines 384-385: is a double line imported
HasDoubleLine(o) == o.dmode # 0

\* lines 286-381: the main line and the warnings added
ImportMainLine(o) ==
    LET common == fillCommonSymbolFields(NewLineSymbol, o)
        color == convertColor(o.color)
        cap_style == CapStyle(o.ends, common.cap_style)
        pointed == cap_style = "PointedCap"
        dash == DashPattern(o)
    IN  [symbol |->
             dash.fields
             @@ (IF pointed
                 THEN [pointed_cap_length |-> convertSize16(CDiv(o.bdist + o.edist, 2)),
                       join_style |-> "RoundJoin"]
                 ELSE << >>)
             @@ [minimum_length |-> 0,
                 line_width |-> convertSize16(o.width),
                 color |-> color.result,
                 cap_style |-> cap_style,
                 join_style |-> JoinStyle(o.ends, common.join_style)]
             @@ common,
         warnings |->
             color.warnings
             \o (IF pointed /\ o.bdist # o.edist
                 THEN <<SymbolWarning("pointed cap lengths for begin and end are different", o)>>
                 ELSE <<>>)
             \o dash.warnings]

\* lines 383-438: the double line and the warnings added
ImportDoubleLine(o) ==
    LET common == fillCommonSymbolFields(NewLineSymbol, o)
        color == IF HasBit(o.dflags, 1) THEN convertColor(o.dcolor)
                 ELSE [result |-> 0, warnings |-> <<>>]
        borders == o.lwidth > 0 \/ o.rwidth > 0
        border_color == convertColor(o.lcolor)
        dashed_border == o.dgap > 0 /\ o.dmode > 1
    IN  [symbol |->
             (IF borders
              THEN [have_border_lines |-> TRUE,
                    border_color |-> border_color.result,
                    border_width |-> convertSize16(o.lwidth),
                    border_shift |-> CDiv(convertSize16(o.lwidth), 2)]
                   @@ (IF dashed_border
                       THEN [dashed_border |-> TRUE,
                             border_dash_length |-> convertSize16(o.dlen),
                             border_break_length |-> convertSize16(o.dgap)]
                       ELSE << >>)
              ELSE << >>)
             @@ [line_width |-> convertSize16(o.dwidth),
                 color |-> color.result,
                 cap_style |-> "FlatCap",
                 join_style |-> "MiterJoin",
                 segment_length |-> convertSize16(o.len),
                 end_length |-> convertSize16(o.elen)]
             @@ common,
         warnings |->
             color.warnings
             \o (IF borders
                 THEN (IF o.lcolor # o.rcolor
                       THEN <<SymbolWarning("left and right borders are different colors", o)>>
                       ELSE <<>>)
                      \o border_color.warnings
                      \o (IF o.lwidth # o.rwidth
                          THEN <<SymbolWarning("left and right borders are different width", o)>>
                          ELSE <<>>)
                      \o (IF dashed_border /\ o.dmode = 2
                          THEN <<SymbolWarning("ignoring that only the left border line should be dashed", o)>>
                          ELSE <<>>)
                 ELSE <<>>)]

\* the line import that lets the parts of a combined symbol keep the flags
importLineSymbolKeepFlags(o) ==
    LET main == ImportMainLine(o)
        double == ImportDoubleLine(o)
        framing == IF o.fwidth > 0 THEN <<SymbolWarning("ignoring framing line", o)>>
                   ELSE <<>>
    IN  IF ~HasMainLine(o)
        THEN [symbol |-> double.symbol, warnings |-> double.warnings \o framing]
        ELSE IF ~HasDoubleLine(o)
        THEN [symbol |-> main.symbol, warnings |-> main.warnings \o framing]
        ELSE [symbol |-> [parts |-> <<main.symbol, double.symbol>>]
                         @@ fillCommonSymbolFields(NewSymbol("Combined"), o),
              warnings |-> main.warnings \o double.warnings \o framing]

\* lines 282-500, OCAD8FileImport::importLineSymbol: the symbol returned (a
\* combined symbol holds its parts) and the warnings added.  The point
\* symbols along the line (lines 441-468) add no warning and are left out.
importLineSymbol(o) ==
    LET main == ImportMainLine(o)
        double == ImportDoubleLine(o)
        framing == IF o.fwidth > 0 THEN <<SymbolWarning("ignoring framing line", o)>>
                   ELSE <<>>
        unflagged(s) == [is_hidden |-> FALSE, is_protected |-> FALSE] @@ s
    IN  IF ~HasMainLine(o)
        THEN [symbol |-> double.symbol, warnings |-> double.warnings \o framing]
        ELSE IF ~HasDoubleLine(o)
        THEN [symbol |-> main.symbol, warnings |-> main.warnings \o framing]
        ELSE [symbol |-> [parts |-> <<unflagged(main.symbol), unflagged(double.symbol)>>]
                         @@ fillCommonSymbolFields(NewSymbol("Combined"), o),
              warnings |-> main.warnings \o double.warnings \o framing]

\* lines 502-505, OCAD8FileImport::importAreaSymbol; the fill patterns are
\* left out
importAreaSymbol(o) ==
    [symbol |-> fillCommonSymbolFields(NewSymbol("Area"), o), warnings |-> <<>>]

\* the alignment that takes justified text as left aligned
TextHalignJustifiedLeft(halign) ==
    CASE halign = 0 -> "AlignLeft"
      [] halign = 1 -> "AlignHCenter"
      [] halign = 2 -> "AlignRight"
      [] OTHER -> "AlignLeft"

\* lines 596-607: the alignment recorded for the text symbol
TextHalign(halign) ==
    CASE halign = 0 -> "AlignLeft"
      [] halign = 1 -> "AlignHCenter"
      [] halign = 2 -> "AlignRight"
      [] OTHER -> "AlignHCenter"

\* the option warnings without the one for the word spacing
TextOptionWarningsNoWordSpacing(o) ==
    (IF o.bold # 400 /\ o.bold # 700
     THEN <<SymbolWarning("ignoring custom weight", o)>> ELSE <<>>)
    \o (IF o.cspace # 0
        THEN <<SymbolWarning("custom character spacing is set", o)>> ELSE <<>>)
    \o (IF o.indent1 # 0 \/ o.indent2 # 0
        THEN <<SymbolWarning("ignoring custom indents", o)>> ELSE <<>>)

\* lines 610-629: the warnings for the text options that are not imported
TextOptionWarnings(o) ==
    (IF o.bold # 400 /\ o.bold # 700
     THEN <<SymbolWarning("ignoring custom weight", o)>> ELSE <<>>)
    \o (IF o.cspace # 0
        THEN <<SymbolWarning("custom character spacing is set", o)>> ELSE <<>>)
    \o (IF o.wspace # 100
        THEN <<SymbolWarning("ignoring custom word spacing", o)>> ELSE <<>>)
    \o (IF o.indent1 # 0 \/ o.indent2 # 0
        THEN <<SymbolWarning("ignoring custom indents", o)>> ELSE <<>>)

\* lines 573-660, OCAD8FileImport::importTextSymbol: the symbol, the
\* alignment entered into text_halign_map, and the warnings added.  Font
\* size, tabs and line spacing are left out.
importTextSymbol(o) ==
    LET color == convertColor(o.color)
        ucolor == convertColor(o.ucolor)
        fcolor == IF o.fmode > 0 THEN convertColor(o.fcolor)
                  ELSE [result |-> 0, warnings |-> <<>>]
    IN  [symbol |->
             (IF o.fmode > 0
              THEN [framing |-> TRUE, framing_color |-> fcolor.result]
                   @@ (IF o.fmode = 1
                       THEN [framing_mode |-> "ShadowFraming",
                             framing_shadow_x_offset |-> convertSize16(o.fdx),
                             framing_shadow_y_offset |-> -1 * convertSize16(o.fdy)]
                       ELSE IF o.fmode = 2
                       THEN [framing_mode |-> "LineFraming",
                             framing_line_half_width |-> convertSize16(o.fdpts)]
                       ELSE << >>)
              ELSE << >>)
             @@ [color |-> color.result,
                 bold |-> (o.bold >= 550),
                 italic |-> (o.italic # 0),
                 underline |-> FALSE,
                 kerning |-> FALSE,
                 line_below |-> (o.under # 0),
                 line_below_color |-> ucolor.result]
             @@ fillCommonSymbolFields(NewSymbol("Text"), o),
         halign |-> TextHalign(o.halign),
         warnings |->
             color.warnings \o ucolor.warnings
             \o (IF o.halign = 3
                 THEN <<SymbolWarning("ignoring justified alignment", o)>> ELSE <<>>)
             \o TextOptionWarnings(o)
             \o fcolor.warnings
             \o (IF o.fmode > 2
                 THEN <<SymbolWarning("ignoring text framing", o)>> ELSE <<>>)]

\* the rectangle import that numbers the grid line and the text like the
\* border line
RectPartNumberUnset(symbol, component) == symbol

\* lines 675 and 681, setNumberComponent(2, component) on a part of the grid
RectPartNumber(symbol, component) ==
    [number |-> <<symbol.number[1], symbol.number[2], component>>] @@ symbol

\* lines 661-698, OCAD8FileImport::importRectSymbol: the RectangleInfo entered
\* into rectangle_info and the warnings added.  Without a grid the inner line
\* and the text are not created.
importRectSymbol(o) ==
    LET color == convertColor(o.color)
        border_line ==
            [line_width |-> convertSize16(o.width), color |-> color.result,
             cap_style |-> "FlatCap", join_style |-> "RoundJoin"]
            @@ fillCommonSymbolFields(NewLineSymbol, o)
        has_grid == HasBit(o.flags, 1)
    IN  [rect |->
             (IF has_grid
              THEN [inner_line |->
                        RectPartNumber([line_width |-> 150, color |-> color.result]
                                       @@ fillCommonSymbolFields(NewLineSymbol, o), 1),
                    text |->
                        RectPartNumber([font_family |-> "Arial", color |-> color.result,
                                        bold |-> TRUE]
                                       @@ fillCommonSymbolFields(NewSymbol("Text"), o), 2),
                    number_from_bottom |-> HasBit(o.flags, 2),
                    cell_width |-> convertSize16(o.cwidth),
                    cell_height |-> convertSize16(o.cheight),
                    unnumbered_cells |-> o.gcells]
              ELSE << >>)
             @@ [border_line |-> border_line,
                 corner_radius |-> convertSize16(o.corner),
                 has_grid |-> has_grid],
         warnings |-> color.warnings]

(***************************************************************************)
(* OCAD8FileImport: the objects.  An OCADPoint is the record [x, y] of its *)
(* two 32-bit fields: the coordinate in the upper 24 bits, flags in the    *)
(* lower 8.  A symbol pointer is the position of the symbol in             *)
(* map->symbols, or one of the two undefined symbols of the map.           *)
(***************************************************************************)
\* libocad's flag bits of the x and y fields
PX_CTL1 == 1

PX_CTL2 == 2

PY_CORNER == 1

PY_HOLE == 2

PY_DASH == 8

\* map->getUndefinedPoint() and map->getUndefinedLine()
UndefinedPoint == -1

UndefinedLine == -2

\* the symbol a symbol pointer points to
SymbolAt(symbols, ref) ==
    CASE ref = UndefinedPoint -> [rotatable |-> FALSE, symmetrical |-> TRUE]
                                 @@ NewSymbol("Point")
      [] ref = UndefinedLine -> NewLineSymbol
      [] OTHER -> symbols[ref]

\* the decoding that leaves the hole flag on the point that carries it
PathCoordHoleOnSamePoint(is_area, pts, k) ==
    LET buf == ocad_point(pts[k])
        coord == convertPointImport(buf[1], buf[2])
    IN  [x |-> coord.x, y |-> coord.y,
         curve_start |-> (k < Len(pts) /\ HasBit(pts[k + 1].x % 256, PX_CTL1)),
         dash_point |-> (HasBit(pts[k].y % 256, PY_DASH)
                         \/ HasBit(pts[k].y % 256, PY_CORNER)),
         hole_point |-> HasBit(pts[k].y % 256, PY_HOLE),
         close_point |-> FALSE]

\* lines 1079-1095: the MapCoord made from pts[k], with the flags that the
\* points pts[k] and pts[k + 1] give it
PathCoord(is_area, pts, k) ==
    LET buf == ocad_point(pts[k])
        coord == convertPointImport(buf[1], buf[2])
    IN  [x |-> coord.x, y |-> coord.y,
         curve_start |-> (k < Len(pts) /\ HasBit(pts[k + 1].x % 256, PX_CTL1)),
         dash_point |-> (HasBit(pts[k].y % 256, PY_DASH)
                         \/ HasBit(pts[k].y % 256, PY_CORNER)),
         hole_point |-> IF is_area
                        THEN k < Len(pts) /\ HasBit(pts[k + 1].y % 256, PY_HOLE)
                        ELSE HasBit(pts[k].y % 256, PY_HOLE),
         close_point |-> FALSE]

\* MapCoord::isPositionEqualTo
isPositionEqualTo(a, b) == a.x = b.x /\ a.y = b.y

\* the closing that compares with the first point of the whole path
RECURSIVE CloseToFirstPoint(_, _, _)
CloseToFirstPoint(coords, k, start) ==
    IF k > Len(coords) THEN coords
    ELSE IF ~coords[k].hole_point /\ k < Len(coords)
         THEN CloseToFirstPoint(coords, k + 1, start)
         ELSE CloseToFirstPoint(
                  IF isPositionEqualTo(coords[k], coords[1])
                  THEN [coords EXCEPT ![k].close_point = TRUE] ELSE coords,
                  k + 1, k + 1)

\* lines 1098-1112: the loop that closes the parts, at position k with the
\* running part starting at position start
RECURSIVE CloseParts(_, _, _)
CloseParts(coords, k, start) ==
    IF k > Len(coords) THEN coords
    ELSE IF ~coords[k].hole_point /\ k < Len(coords)
         THEN CloseParts(coords, k + 1, start)
         ELSE CloseParts(
                  IF isPositionEqualTo(coords[k], coords[start])
                  THEN [coords EXCEPT ![k].close_point = TRUE] ELSE coords,
                  k + 1, k + 1)

\* line 1091 with i = 0: the hole flag of the first point of an area object
\* is written to coords[-1], in front of the vector
WritesBeforeCoords(is_area, npts, pts) ==
    is_area /\ npts > 0 /\ HasBit(pts[1].y % 256, PY_HOLE)

\* lines 1075-1113, OCAD8FileImport::fillPathCoords: the coords of the object
fillPathCoords(is_path, is_area, npts, pts) ==
    LET used == SubSeq(pts, 1, npts)
        coords == [k \in 1..npts |-> PathCoord(is_area, used, k)]
    IN  IF is_path THEN CloseParts(coords, 1, 1) ELSE coords

\* PointSymbol::PointSymbol: the circle fields of a new point symbol
NewPointSymbol ==
    [rotatable |-> FALSE, inner_radius |-> 1000, inner_color |-> 0,
     outer_width |-> 0, outer_color |-> 0, elements |-> <<>>]
    @@ NewSymbol("Point")

\* the offset of element k from the start of the pattern, in OCADPoints: an
\* element is a header of two points and its npts coordinates (line 767)
RECURSIVE ElementOffset(_, _)
ElementOffset(elements, k) ==
    IF k = 1 THEN 0
    ELSE ElementOffset(elements, k - 1) + 2 + elements[k - 1].npts

\* every dot and circle taken as one of several elements
MultipleElementsAlways(p, elt, npts) == TRUE

\* line 708: p + (2 + elt->npts) < end || p > pts, with p and end as offsets
MultipleElements(p, elt, npts) == p + (2 + elt.npts) < npts \/ p > 0

\* lines 709-766: one element of the pattern.  The result is the parent
\* symbol and the warnings of convertColor.
importPatternElement(symbol, elt, multiple_elements) ==
    LET color == convertColor(elt.color)
        nested(fields) ==
            [symbol EXCEPT !.elements =
                Append(@, [object |-> [type |-> "Point", coords |-> <<[x |-> 0, y |-> 0]>>],
                           symbol |-> fields @@ NewPointSymbol])]
        circle(inner_radius, inner_color, outer_width, outer_color) ==
            IF multiple_elements
            THEN nested([inner_radius |-> inner_radius, inner_color |-> inner_color,
                         outer_width |-> outer_width, outer_color |-> outer_color,
                         rotatable |-> FALSE])
            ELSE [symbol EXCEPT !.inner_radius = inner_radius,
                                !.inner_color = inner_color,
                                !.outer_width = outer_width,
                                !.outer_color = outer_color]
        unchanged == [symbol |-> symbol, warnings |-> <<>>]
    IN  CASE elt.type = "dot" ->
               LET inner_radius == CDiv(convertSize16(elt.diameter), 2)
               IN  IF inner_radius > 0
                   THEN [symbol |-> circle(inner_radius, color.result, 0, 0),
                         warnings |-> color.warnings]
                   ELSE unchanged
          [] elt.type = "circle" ->
               LET inner_radius == CDiv(convertSize16(elt.diameter), 2)
                                   - convertSize16(elt.width)
                   outer_width == convertSize16(elt.width)
               IN  IF outer_width > 0 /\ inner_radius > 0
                   THEN [symbol |-> circle(inner_radius, 0, outer_width, color.result),
                         warnings |-> color.warnings]
                   ELSE unchanged
          [] elt.type = "line" ->
               [symbol |-> [symbol EXCEPT !.elements =
                    Append(@, [object |-> [type |-> "Path",
                                           coords |-> fillPathCoords(TRUE, FALSE,
                                                                     elt.npts, elt.pts)],
                               symbol |-> [line_width |-> convertSize16(elt.width),
                                           color |-> color.result] @@ NewLineSymbol])],
                warnings |-> color.warnings]
          [] elt.type = "area" ->
               [symbol |-> [symbol EXCEPT !.elements =
                    Append(@, [object |-> [type |-> "Path",
                                           coords |-> fillPathCoords(TRUE, TRUE,
                                                                     elt.npts, elt.pts)],
                               symbol |-> [color |-> color.result] @@ NewSymbol("Area")])],
                warnings |-> color.warnings]
          [] OTHER -> unchanged

\* lines 700-770, OCAD8FileImport::importPattern: the loop over the elements,
\* at element k
RECURSIVE importPatternFrom(_, _, _, _)
importPatternFrom(st, npts, elements, k) ==
    IF k > Len(elements) THEN st
    ELSE LET r == importPatternElement(st.symbol, elements[k],
                      MultipleElements(ElementOffset(elements, k), elements[k], npts))
         IN  importPatternFrom([symbol |-> r.symbol,
                                warnings |-> st.warnings \o r.warnings],
                               npts, elements, k + 1)

importPattern(npts, elements) ==
    importPatternFrom([symbol |-> [NewPointSymbol EXCEPT !.rotatable = TRUE],
                       warnings |-> <<>>],
                      npts, elements, 1)

\* PointSymbol::isSymmetrical: every element is a point at the origin
isSymmetrical(elements) ==
    \A k \in DOMAIN elements :
        /\ elements[k].object.type = "Point"
        /\ elements[k].object.coords = <<[x |-> 0, y |-> 0]>>

\* lines 273-280, OCAD8FileImport::importPointSymbol; symmetrical is the
\* value of isSymmetrical() for the imported pattern
importPointSymbol(o) ==
    LET pattern == importPattern(o.ngrp, o.elements)
    IN  [symbol |-> [rotatable |-> HasBit(o.base_flags, 1),
                     symmetrical |-> isSymmetrical(pattern.symbol.elements)]
                    @@ fillCommonSymbolFields(pattern.symbol, o),
         warnings |-> pattern.warnings]

\* lines 2042-2053: the flag a dash point is exported with.  symbol is the
\* symbol of the object, or NoValue for the NULL pointer.
DashPointFlag(symbol) ==
    IF symbol = NoValue \/ symbol.type # "Line" THEN PY_CORNER
    ELSE IF symbol.dash_symbol_empty /\ symbol.dashed THEN PY_DASH
    ELSE PY_CORNER

\* lines 2029-2071, OCAD8FileExport::exportCoordinates: the OCADPoint written
\* for coords[k]; curve_start, hole_point and curve_continue are the flags of
\* the points before it
ExportedPoint(coords, symbol, k) ==
    LET p == exportCoordinatesPoint(coords[k].x, coords[k].y)
        curve_start == k > 1 /\ coords[k - 1].curve_start
        hole_point == k > 1 /\ coords[k - 1].hole_point
        curve_continue == k > 2 /\ coords[k - 2].curve_start
    IN  [x |-> p.x + (IF curve_start THEN PX_CTL1 ELSE 0)
                   + (IF curve_continue THEN PX_CTL2 ELSE 0),
         y |-> p.y + (IF coords[k].dash_point THEN DashPointFlag(symbol) ELSE 0)
                   + (IF hole_point THEN PY_HOLE ELSE 0)]

exportCoordinates(coords, symbol) ==
    [k \in 1..Len(coords) |-> ExportedPoint(coords, symbol, k)]

\* the lowest index of object->coords that fillPathCoords reads or writes,
\* counted from 0 as in the source: coords[i] and coords[i-1] of lines
\* 1082-1094
LowestCoordIndex(is_area, npts, pts) ==
    IF WritesBeforeCoords(is_area, npts, pts) THEN -1 ELSE 0

\* lines 1119-1168, OCAD8FileImport::fillTextPathCoords: is the path
\* importable, the kind of text object, and the warnings added
fillTextPathCoords(npts, pts) ==
    IF npts = 0 THEN [ok |-> FALSE, warnings |-> <<>>]
    ELSE IF npts = 4
    THEN [ok |-> TRUE, box |-> TRUE, vertical_alignment |-> "AlignTop",
          warnings |-> <<>>]
    ELSE [ok |-> TRUE, box |-> FALSE, vertical_alignment |-> "AlignBaseline",
          anchor |-> LET buf == ocad_point(pts[1])
                     IN  convertPointImport(buf[1], buf[2]),
          warnings |-> IF npts # 5
                       THEN <<[text |-> "Trying to import a text object with unknown coordinate format"]>>
                       ELSE <<>>]

\* qRound(a / b) for a >= 0 and b > 0
RoundDiv(a, b) == (2 * a + b) \div (2 * b)

\* qMax(1, v)
AtLeast1(v) == IF v < 1 THEN 1 ELSE v

\* |v|
Abs(v) == IF v < 0 THEN -v ELSE v

\* lines 882-1013, OCAD8FileImport::importRectangleObject for a rectangle
\* with sides parallel to the axes: the objects pushed to the layer, or ok
\* FALSE.  Of each object the symbol and the kind are kept.
importRectangleObject(o, rect) ==
    IF o.npts # 4 THEN [ok |-> FALSE, objects |-> <<>>]
    ELSE
    LET corner(k) == LET buf == ocad_point(o.pts[k])
                     IN  [x |-> 10 * buf[1], y |-> -10 * buf[2]]
        top_left == corner(4)
        bottom_left == corner(1)
        top_right == corner(3)
        width == Abs(top_right.x - top_left.x) + Abs(top_right.y - top_left.y)
        height == Abs(bottom_left.x - top_left.x) + Abs(bottom_left.y - top_left.y)
        made(type, symbol) == [type |-> type, symbol |-> symbol, ocad_symbol |-> o.symbol,
                               rectangle |-> TRUE]
        border == << made("Path", rect.border_line) >>
    IN  IF rect.has_grid /\ rect.cell_width > 0 /\ rect.cell_height > 0
        THEN LET num_cells_x == AtLeast1(RoundDiv(width, rect.cell_width))
                 num_cells_y == AtLeast1(RoundDiv(height, rect.cell_height))
                 lines == [k \in 1..((num_cells_x - 1) + (num_cells_y - 1)) |->
                               made("Path", rect.inner_line)]
                 texts == IF 2 * height >= rect.cell_height
                          THEN [k \in 1..(num_cells_x * num_cells_y) |->
                                    [halign |-> "AlignLeft"] @@ made("Text", rect.text)]
                          ELSE <<>>
             IN  [ok |-> TRUE, objects |-> border \o lines \o texts]
        ELSE [ok |-> TRUE, objects |-> border]

\* the lookup that gives the undefined line symbol to every unknown number
ObjectSymbolAlwaysLine(o) ==
    IF o.symbol \notin DOMAIN symbol_index
    THEN IF o.symbol \notin DOMAIN rectangle_info
         THEN [found |-> TRUE, symbol |-> UndefinedLine]
         ELSE [found |-> FALSE, rectangle |-> TRUE]
    ELSE [found |-> TRUE, symbol |-> symbol_index[o.symbol]]

\* lines 790-812: the symbol of the object; found FALSE when the object is
\* not imported with a symbol of its own
ObjectSymbol(o) ==
    IF o.symbol \notin DOMAIN symbol_index
    THEN IF o.symbol \notin DOMAIN rectangle_info
         THEN IF o.type = 1 THEN [found |-> TRUE, symbol |-> UndefinedPoint]
              ELSE IF o.type = 2 \/ o.type = 3
              THEN [found |-> TRUE, symbol |-> UndefinedLine]
              ELSE [found |-> FALSE, rectangle |-> FALSE]
         ELSE [found |-> FALSE, rectangle |-> TRUE]
    ELSE [found |-> TRUE, symbol |-> symbol_index[o.symbol]]

\* line 844: text_halign_map.value(symbol), the QHash default being 0
TextObjectHalign(symbol) ==
    IF symbol \in DOMAIN text_halign_map THEN text_halign_map[symbol] ELSE "AlignLeft"

\* lines 787-880, OCAD8FileImport::importObject: the objects added to the
\* layer (the one returned, or the ones of a rectangle), the warnings added,
\* and whether the symbol of a point object is made rotatable
importObject(o) ==
    LET s == ObjectSymbol(o)
    IN  IF ~s.found
        THEN IF s.rectangle
             THEN LET r == importRectangleObject(o, rectangle_info[o.symbol])
                  IN  [objects |-> r.objects,
                       warnings |-> IF r.ok THEN <<>>
                                    ELSE <<[text |-> "Unable to import rectangle object"]>>,
                       make_rotatable |-> FALSE]
             ELSE [objects |-> <<>>, warnings |-> <<[text |-> "Unable to load object"]>>,
                   make_rotatable |-> FALSE]
        ELSE
        LET symbol == SymbolAt(map_symbols, s.symbol)
            common == [symbol |-> s.symbol, ocad_symbol |-> o.symbol, rectangle |-> FALSE]
        IN  CASE symbol.type = "Point" ->
                   LET rotate == symbol.rotatable
                                 \/ (o.angle # 0 /\ ~symbol.symmetrical)
                   IN  [objects |->
                            << [type |-> "Point",
                                coords |-> fillPathCoords(FALSE, FALSE, 1, o.pts)]
                               @@ (IF rotate
                                   THEN [rotation |-> convertRotationImport(o.angle)]
                                   ELSE << >>)
                               @@ common >>,
                        warnings |-> <<>>,
                        make_rotatable |-> (~symbol.rotatable /\ rotate)]
              [] symbol.type = "Text" ->
                   LET path == fillTextPathCoords(o.npts, o.pts)
                   IN  IF path.ok
                       THEN [objects |->
                                 << [type |-> "Text",
                                     rotation |-> convertRotationImport(o.angle),
                                     halign |-> TextObjectHalign(s.symbol),
                                     vertical_alignment |-> path.vertical_alignment,
                                     box |-> path.box]
                                    @@ common >>,
                             warnings |-> path.warnings,
                             make_rotatable |-> FALSE]
                       ELSE [objects |-> <<>>,
                             warnings |-> path.warnings \o
                                 <<[text |-> "Not importing text symbol, couldn't figure out path"]>>,
                             make_rotatable |-> FALSE]
              [] symbol.type \in {"Line", "Area", "Combined"} ->
                   [objects |->
                        << [type |-> "Path",
                            coords |-> fillPathCoords(TRUE, symbol.type = "Area",
                                                      o.npts, o.pts)]
                           @@ common >>,
                    warnings |-> <<>>,
                    make_rotatable |-> FALSE]
              [] OTHER -> [objects |-> <<>>, warnings |-> <<>>, make_rotatable |-> FALSE]

(***************************************************************************)
(* OCAD8FileImport::doImport with the symbol table and the object table    *)
(* decoded record by record.                                               *)
(***************************************************************************)
\* the symbols pushed to map->symbols for an imported symbol: the symbol,
\* and for a combined symbol its parts with the third number component set
\* (lines 164-178); the parts of the combined symbol become positions
PushedSymbols(symbol, first) ==
    IF symbol.type = "Combined"
    THEN << [parts |-> [k \in 1..Len(symbol.parts) |-> first + k]] @@ symbol >>
         \o [k \in 1..Len(symbol.parts) |->
                [number |-> <<symbol.parts[k].number[1], symbol.parts[k].number[2], k>>]
                @@ symbol.parts[k]]
    ELSE << symbol >>

\* lines 149-159: the symbols pushed to map->symbols for a rectangle
PushedRectSymbols(rect) ==
    IF rect.has_grid THEN <<rect.border_line, rect.inner_line, rect.text>>
    ELSE <<rect.border_line>>

\* the RectangleInfo with its symbol pointers as positions in map->symbols
RectangleEntry(rect, first) ==
    (IF rect.has_grid THEN [inner_line |-> first + 1, text |-> first + 2] ELSE << >>)
    @@ [border_line |-> first] @@ rect

\* lines 127-186: one iteration of the symbol loop
ImportSymbol ==
    /\ pc = "import_symbols"
    /\ i < Len(ocad_symbols)
    /\ LET o == ocad_symbols[i + 1]
           first == Len(map_symbols) + 1
           done(call) == [op |-> call, ocad_symbol |-> o,
                          warnings_before |-> Len(warnings),
                          symbols_before |-> Len(map_symbols)]
       IN  IF o.number = 0
           THEN /\ last' = done("skipped")
                /\ UNCHANGED <<map_symbols, symbol_index, text_halign_map,
                               rectangle_info, warnings>>
           ELSE IF o.type = OCAD_RECT_SYMBOL
           THEN LET r == importRectSymbol(o)
                IN  /\ rectangle_info' =
                           (o.number :> RectangleEntry(r.rect, first)) @@ rectangle_info
                    /\ map_symbols' = map_symbols \o PushedRectSymbols(r.rect)
                    /\ warnings' = warnings \o r.warnings
                    /\ last' = done("importRectSymbol")
                    /\ UNCHANGED <<symbol_index, text_halign_map>>
           ELSE IF o.type \in {OCAD_POINT_SYMBOL, OCAD_LINE_SYMBOL, OCAD_AREA_SYMBOL,
                               OCAD_TEXT_SYMBOL}
           THEN LET r == CASE o.type = OCAD_POINT_SYMBOL -> importPointSymbol(o)
                           [] o.type = OCAD_LINE_SYMBOL -> importLineSymbol(o)
                           [] o.type = OCAD_AREA_SYMBOL -> importAreaSymbol(o)
                           [] o.type = OCAD_TEXT_SYMBOL -> importTextSymbol(o)
                IN  /\ map_symbols' = map_symbols \o PushedSymbols(r.symbol, first)
                    /\ symbol_index' = (o.number :> first) @@ symbol_index
                    /\ text_halign_map' =
                           IF o.type = OCAD_TEXT_SYMBOL
                           THEN (first :> r.halign) @@ text_halign_map
                           ELSE text_halign_map
                    /\ warnings' = warnings \o r.warnings
                    /\ last' = [result |-> r.symbol] @@ done("importSymbol")
                    /\ UNCHANGED rectangle_info
           ELSE /\ warnings' = warnings \o <<SymbolWarning("Unable to import symbol", o)>>
                /\ last' = done("unknown")
                /\ UNCHANGED <<map_symbols, symbol_index, text_halign_map,
                               rectangle_info>>
    /\ i' = i + 1
    /\ UNCHANGED <<undo_vars, pc, stream, stream_written, file, header_major, map_colors,
                   map_objects, ocad_colors, ocad_symbols, ocad_objects,
                   symbol_numbers, text_format_map, color_index, error, arg, res,
                   load_symbols_only, ocad_setup, layer, map_layers, map_templates,
                   view>>

\* lines 190-195: after the symbol loop, the branch on load_symbols_only and
\* the new import layer
ImportLayerBegin ==
    /\ pc = "import_symbols"
    /\ i = Len(ocad_symbols)
    /\ IF load_symbols_only
       THEN pc' = "import_close" /\ layer' = layer
       ELSE /\ pc' = "import_objects"
            /\ layer' = [name |-> "OCAD import layer", objects |-> <<>>]
    /\ i' = 0
    /\ UNCHANGED <<undo_vars, stream, stream_written, file, header_major, map_colors,
                   map_symbols, map_objects, ocad_colors, ocad_symbols, ocad_objects,
                   symbol_numbers, symbol_index, text_format_map, color_index,
                   warnings, error, last, arg, res, load_symbols_only, ocad_setup,
                   rectangle_info, text_halign_map, map_layers, map_templates, view>>

\* lines 196-208: one iteration of the object loop.  An area object whose
\* first point has the hole flag makes fillPathCoords write in front of the
\* coords vector: the import crashes, or goes on without the flag.
ImportObject ==
    /\ pc = "import_objects"
    /\ i < Len(ocad_objects)
    /\ LET o == ocad_objects[i + 1]
           s == ObjectSymbol(o)
           r == importObject(o)
           out_of_bounds ==
               /\ s.found
               /\ SymbolAt(map_symbols, s.symbol).type = "Area"
               /\ WritesBeforeCoords(TRUE, o.npts, o.pts)
       IN  \E crash \in IF out_of_bounds THEN BOOLEAN ELSE {FALSE} :
             IF crash
             THEN /\ pc' = "import_crashed"
                  /\ UNCHANGED <<layer, warnings, map_symbols, last>>
             ELSE /\ pc' = pc
                  /\ layer' = [layer EXCEPT !.objects = @ \o r.objects]
                  /\ warnings' = warnings \o r.warnings
                  /\ map_symbols' =
                         IF r.make_rotatable /\ s.symbol \in DOMAIN map_symbols
                         THEN [map_symbols EXCEPT ![s.symbol].rotatable = TRUE]
                         ELSE map_symbols
                  /\ last' = [op |-> "importObject", ocad_object |-> o,
                              objects_before |-> Len(layer.objects),
                              warnings_before |-> Len(warnings)]
    /\ i' = i + 1
    /\ UNCHANGED <<undo_vars, stream, stream_written, file, header_major, map_colors,
                   map_objects, ocad_colors, ocad_symbols, ocad_objects,
                   symbol_numbers, symbol_index, text_format_map, color_index,
                   error, arg, res, load_symbols_only, ocad_setup, rectangle_info,
                   text_halign_map, map_layers, map_templates, view>>

\* MapView::zoom_out_limit and MapView::zoom_in_limit, the zoom factors in
\* sixteenths
ZoomOutLimit == 1

ZoomInLimit == 8192

\* lines 212-222 and 1015-1062: the string entries with a type and a size
\* are imported; an entry of type 8 is a template, added when it parses as a
\* background whose file is a raster image
TemplateEntries(strings) ==
    SelectSeq(strings, LAMBDA e : e.type # 0 /\ e.size > 0 /\ e.type = 8)

ImportedTemplates(strings) ==
    LET loaded == SelectSeq(TemplateEntries(strings), LAMBDA e : e.parse = "ok")
    IN  [k \in 1..Len(loaded) |-> [path |-> loaded[k].path]]

TemplateWarnings(strings) ==
    LET failed == SelectSeq(TemplateEntries(strings), LAMBDA e : e.parse # "ok")
    IN  [k \in 1..Len(failed) |-> [text |-> "Unable to import template"]]

\* the import layer added behind the layers of the map
setLayerAppended(layers, import_layer) == Append(layers, import_layer)

\* lines 211-212: delete map->layers[0]; map->layers[0] = layer
setLayer(layers, import_layer) == [layers EXCEPT ![1] = import_layer]

\* lines 209-240: the import layer replaces layer 0, the templates are
\* replaced by the ones of the file, the view takes zoom and centre.
\* importString sets the visibility of a loaded template through the view
\* pointer without testing it (line 1028).
ImportLayerEnd ==
    /\ pc = "import_objects"
    /\ i = Len(ocad_objects)
    /\ map_layers' = setLayer(map_layers, layer)
    /\ map_templates' = ImportedTemplates(ocad_setup.strings)
    /\ warnings' = warnings \o TemplateWarnings(ocad_setup.strings)
    /\ IF view.null
       THEN /\ view' = view
            /\ pc' = IF ImportedTemplates(ocad_setup.strings) # <<>>
                     THEN "import_crashed" ELSE "import_close"
       ELSE /\ LET buf == ocad_point([x |-> ocad_setup.center[1],
                                      y |-> ocad_setup.center[2]])
                   center_pos == convertPointImport(buf[1], buf[2])
               IN  view' = [null |-> FALSE,
                            zoom |-> IF ocad_setup.zoom >= ZoomOutLimit
                                        /\ ocad_setup.zoom <= ZoomInLimit
                                     THEN ocad_setup.zoom ELSE view.zoom,
                            x |-> center_pos.x, y |-> center_pos.y]
            /\ pc' = "import_close"
    /\ i' = 0
    /\ UNCHANGED <<undo_vars, stream, stream_written, file, header_major, map_colors,
                   map_symbols, map_objects, ocad_colors, ocad_symbols, ocad_objects,
                   symbol_numbers, symbol_index, text_format_map, color_index,
                   error, last, arg, res, load_symbols_only, ocad_setup,
                   rectangle_info, text_halign_map, layer>>

\* line 262: ocad_file_close(file)
ImportClose ==
    /\ pc = "import_close"
    /\ file' = "closed"
    /\ pc' = "import_done"
    /\ UNCHANGED <<undo_vars, stream, stream_written, header_major, map_colors, map_symbols,
                   map_objects, ocad_colors, ocad_symbols, ocad_objects,
                   symbol_numbers, symbol_index, text_format_map, color_index,
                   warnings, error, i, last, arg, res, load_vars>>

LoadNext ==
    \/ ImportBegin
    \/ ImportColor
    \/ ImportSymbol
    \/ ImportLayerBegin
    \/ ImportObject
    \/ ImportLayerEnd
    \/ ImportClose

(***************************************************************************)
(* The legacy files handed to the importer.                                *)
(***************************************************************************)
\* a line symbol record: the fields given, over a plain solid line
LineSymbolRecord(fields) ==
    fields @@
    [type |-> OCAD_LINE_SYMBOL, number |-> 12, name |-> "line", status |-> 0,
     dmode |-> 0, width |-> 2, color |-> 1, ends |-> 0, bdist |-> 0, edist |-> 0,
     len |-> 100, elen |-> 100, gap |-> 0, gap2 |-> 0, egap |-> 0,
     dwidth |-> 1, dflags |-> 1, dcolor |-> 1, lwidth |-> 0, rwidth |-> 0,
     lcolor |-> 1, rcolor |-> 1, dlen |-> 0, dgap |-> 0, fwidth |-> 0]

\* line symbols with all kinds of dash patterns, caps and colours
DashedLineInputs ==
    { LineSymbolRecord([len |-> l, elen |-> e, gap |-> g[1], gap2 |-> g[2],
                        egap |-> g[3], ends |-> c[1], bdist |-> c[2], edist |-> c[3],
                        fwidth |-> f, color |-> col]) :
        l \in {100, 3}, e \in {100, 52, 51, 50, 49, 48, 3, 1, 0},
        g \in {0, 20} \X {0, 5} \X {0, 5},
        c \in { <<0, 0, 0>>, <<1, 0, 0>>, <<2, 2, 2>>, <<2, 2, 4>> },
        f \in {0, 1}, col \in {1, 77} }

\* line symbols with all kinds of double lines and status bits
DoubleLineInputs ==
    { LineSymbolRecord([dmode |-> d, width |-> w, status |-> s, dflags |-> b[1],
                        lwidth |-> b[2], rwidth |-> b[3], rcolor |-> b[4],
                        dgap |-> b[5], gap |-> g]) :
        d \in 0..3, w \in {0, 2}, s \in 0..3,
        b \in {0, 1} \X {0, 1} \X {0, 1, 2} \X {1, 77} \X {0, 3},
        g \in {0, 20} }

\* a text symbol record: the fields given, over a plain left-aligned text
TextSymbolRecord(fields) ==
    fields @@
    [type |-> OCAD_TEXT_SYMBOL, number |-> 14, name |-> "text", status |-> 0,
     color |-> 1, halign |-> 0, bold |-> 400, italic |-> 0, cspace |-> 0,
     wspace |-> 100, indent1 |-> 0, indent2 |-> 0, under |-> 0, ucolor |-> 1,
     fmode |-> 0, fcolor |-> 1, fdx |-> 0, fdy |-> 0, fdpts |-> 0]

\* text symbols with all kinds of alignment and options
TextSymbolInputs ==
    { TextSymbolRecord([halign |-> h, bold |-> b, cspace |-> s[1], wspace |-> s[2],
                        indent1 |-> s[3], indent2 |-> s[4], under |-> s[5],
                        fmode |-> f]) :
        h \in 0..4, b \in {400, 700, 550, 300},
        s \in {0, 5} \X {100, 50} \X {0, 1} \X {0, 1} \X {0, 1},
        f \in 0..3 }

\* a rectangle symbol record with the given flags
RectSymbolRecord(flags) ==
    [type |-> OCAD_RECT_SYMBOL, number |-> 15, name |-> "rect", status |-> 0,
     color |-> 1, width |-> 2, corner |-> 0, flags |-> flags,
     cwidth |-> 30, cheight |-> 20, gcells |-> 1]

\* the symbols of the files with several symbols: a point symbol, a line
\* with a double line, two text symbols of one number, a rectangle with and
\* without grid, a record of an unknown type
\* an OCADPoint with the coordinates and the flag bytes given
OcadPoint(x, y, xflags, yflags) == [x |-> 256 * x + xflags, y |-> 256 * y + yflags]

\* the elements of a point pattern: dots and circles, drawable or not, with
\* a colour of the table or an unknown one, a line and an area
PatternElementInputs ==
    { [type |-> "dot", color |-> c, diameter |-> d, width |-> 0, npts |-> 1,
       pts |-> << OcadPoint(0, 0, 0, 0) >>] :
          c \in {1, 7}, d \in {0, 40} }
    \cup
    { [type |-> "circle", color |-> 1, diameter |-> 40, width |-> w, npts |-> 1,
       pts |-> << OcadPoint(0, 0, 0, 0) >>] :
          w \in {0, 5, 30} }
    \cup
    { [type |-> "line", color |-> 1, diameter |-> 0, width |-> 10, npts |-> 2,
       pts |-> << OcadPoint(0, 0, 0, 0), OcadPoint(2, 0, 0, 0) >>],
      [type |-> "area", color |-> 1, diameter |-> 0, width |-> 0, npts |-> 3,
       pts |-> << OcadPoint(0, 0, 0, 0), OcadPoint(2, 0, 0, 0),
                  OcadPoint(0, 2, 0, 0) >>] }

\* a point symbol record with the pattern given; ngrp counts two header
\* points and the coordinates of every element
PointSymbolRecord(elements) ==
    [type |-> OCAD_POINT_SYMBOL, number |-> 11, name |-> "point", status |-> 0,
     base_flags |-> 0,
     ngrp |-> IF elements = <<>> THEN 0
              ELSE ElementOffset(elements, Len(elements))
                   + 2 + elements[Len(elements)].npts,
     elements |-> elements]

PointSymbolInputs ==
    { PointSymbolRecord(e) : e \in SeqsUpTo(PatternElementInputs, MaxElements) }

FileSymbolInputs ==
    { PointSymbolRecord(<< [type |-> "line", color |-> 1, diameter |-> 0,
                            width |-> 10, npts |-> 2,
                            pts |-> << OcadPoint(0, 0, 0, 0), OcadPoint(2, 0, 0, 0) >>] >>),
      LineSymbolRecord([dmode |-> 1, status |-> 2]),
      TextSymbolRecord([halign |-> 2]),
      TextSymbolRecord([halign |-> 3]),
      RectSymbolRecord(0),
      RectSymbolRecord(1),
      [type |-> 6, number |-> 16, name |-> "other", status |-> 0] }

\* the corners of a rectangle of 7 by 2 units, from the bottom left corner
\* counter-clockwise
RectanglePoints ==
    << OcadPoint(0, 0, 0, 0), OcadPoint(7, 0, 0, 0), OcadPoint(7, 2, 0, 0),
       OcadPoint(0, 2, 0, 0) >>

\* an object record
ObjectRecord(symbol, type, angle, pts) ==
    [symbol |-> symbol, type |-> type, angle |-> angle, npts |-> Len(pts), pts |-> pts]

\* the objects of the files with several objects: objects of the symbols
\* above and objects of a number no symbol has, of all object types
FileObjectInputs ==
    { ObjectRecord(11, 1, 900, << OcadPoint(1, 1, 0, 0) >>),
      ObjectRecord(12, 2, 0, << OcadPoint(0, 0, 0, 0), OcadPoint(1, 0, 0, 0) >>),
      ObjectRecord(14, 4, 0, [k \in 1..5 |-> OcadPoint(k, 0, 0, 0)]),
      ObjectRecord(15, 7, 0, RectanglePoints),
      ObjectRecord(99, 1, 0, << OcadPoint(1, 1, 0, 0) >>),
      ObjectRecord(99, 3, 0, << OcadPoint(0, 0, 0, 0), OcadPoint(1, 0, 0, 0) >>),
      ObjectRecord(99, 4, 0, [k \in 1..5 |-> OcadPoint(k, 0, 0, 0)]) }

\* the points of the path objects: two positions one unit apart, with and
\* without the hole flag and the dash flag
PathPointInputs ==
    { OcadPoint(x, 0, 0, f) : x \in {0, 1}, f \in {0, PY_HOLE, PY_DASH} }

\* the text objects with all numbers of points
TextObjectInputs ==
    { ObjectRecord(14, 4, 0, [k \in 1..n |-> OcadPoint(k, 0, 0, 0)]) : n \in {0, 1, 4, 5} }

\* file->setup and the string table
SetupInputs ==
    { [zoom |-> z, center |-> <<768, -512>>, strings |-> s] :
        z \in {0, 32, 9000},
        s \in { <<>>,
                << [type |-> 8, size |-> 10, parse |-> "ok", path |-> "map.png"] >>,
                << [type |-> 8, size |-> 10, parse |-> "failed", path |-> "map.ocd"] >>,
                << [type |-> 0, size |-> 10, parse |-> "ok", path |-> "unused.png"],
                   [type |-> 9, size |-> 10, parse |-> "ok", path |-> "print"] >> } }

\* the layers of the map before the import: the default layer, possibly with
\* a second layer
MapLayerInputs ==
    { << [name |-> "default layer", objects |-> << [type |-> "Point", symbol |-> UndefinedPoint] >>] >>,
      << [name |-> "default layer", objects |-> <<>>],
         [name |-> "second layer", objects |-> << [type |-> "Point", symbol |-> UndefinedPoint] >>] >> }

\* the view handed to the importer: none, or one with zoom and centre
ViewInputs ==
    { [null |-> TRUE], [null |-> FALSE, zoom |-> 16, x |-> Wide(5), y |-> Wide(5)] }

\* a plain setup, map and view
PlainSetup == [zoom |-> 32, center |-> <<768, -512>>, strings |-> <<>>]

PlainLayers == << [name |-> "default layer", objects |-> <<>>] >>

PlainView == [null |-> FALSE, zoom |-> 16, x |-> Wide(5), y |-> Wide(5)]

\* the files and import modes: files of one symbol of any kind, files of one
\* line or area symbol with one path object, files of one text symbol with a
\* text object, files of several symbols and objects, and files without
\* symbols imported into all kinds of maps and views
LoadInputs ==
    { [symbols |-> <<s>>, objects |-> <<>>, symbols_only |-> TRUE,
       setup |-> PlainSetup, layers |-> PlainLayers, templates |-> <<>>,
       view |-> PlainView] :
        s \in DashedLineInputs \cup DoubleLineInputs \cup TextSymbolInputs
              \cup PointSymbolInputs }
    \cup
    { [symbols |-> <<s>>, objects |-> << ObjectRecord(s.number, 2, 0, pts) >>,
       symbols_only |-> FALSE,
       setup |-> PlainSetup, layers |-> PlainLayers, templates |-> <<>>,
       view |-> PlainView] :
        s \in { LineSymbolRecord(<< >>),
                [type |-> OCAD_AREA_SYMBOL, number |-> 13, name |-> "area",
                 status |-> 0] },
        pts \in SeqsUpTo(PathPointInputs, MaxPathPoints) }
    \cup
    { [symbols |-> <<s>>, objects |-> <<o>>, symbols_only |-> FALSE,
       setup |-> PlainSetup, layers |-> PlainLayers, templates |-> <<>>,
       view |-> PlainView] :
        s \in { TextSymbolRecord([halign |-> h]) : h \in 0..4 },
        o \in TextObjectInputs }
    \cup
    { [symbols |-> s, objects |-> o, symbols_only |-> FALSE,
       setup |-> PlainSetup, layers |-> PlainLayers, templates |-> <<>>,
       view |-> PlainView] :
        s \in SeqsUpTo(FileSymbolInputs, MaxFileSymbols),
        o \in SeqsUpTo(FileObjectInputs, MaxFileObjects) }
    \cup
    { [symbols |-> s, objects |-> o, symbols_only |-> b,
       setup |-> f[1], layers |-> f[2], templates |-> f[3], view |-> f[4]] :
        s \in { <<>>, << RectSymbolRecord(1) >> },
        o \in { <<>>, << ObjectRecord(15, 7, 0, RectanglePoints) >> },
        b \in BOOLEAN,
        f \in SetupInputs \X MapLayerInputs \X { <<>>, << [path |-> "old.png"] >> }
              \X ViewInputs }

\* the colour table of these files: one colour, of number 1
LoadColors == << [number |-> 1, cyan |-> 0, magenta |-> 0, yellow |-> 0, black |-> 200] >>

\* the importer after construction, with the file it is going to load
InitLoad ==
    /\ pc = "import_start"
    /\ stream = "open"
    /\ stream_written = FALSE
    /\ file = "null"
    /\ header_major = 8
    /\ map_colors = <<>>
    /\ map_symbols = <<>>
    /\ map_objects = <<>>
    /\ ocad_colors = LoadColors
    /\ \E in \in LoadInputs :
         /\ ocad_symbols = in.symbols
         /\ ocad_objects = in.objects
         /\ load_symbols_only = in.symbols_only
         /\ ocad_setup = in.setup
         /\ map_layers = in.layers
         /\ map_templates = in.templates
         /\ view = in.view
    /\ symbol_numbers = {}
    /\ symbol_index = << >>
    /\ text_format_map = << >>
    /\ color_index = << >>
    /\ rectangle_info = << >>
    /\ text_halign_map = << >>
    /\ layer = <<>>
    /\ warnings = <<>>
    /\ error = "none"
    /\ i = 0
    /\ last = NoCall
    /\ arg = NoValue
    /\ res = NoValue
    /\ NoUndo

SpecLoad == InitLoad /\ [][LoadNext]_vars

(***************************************************************************)
(* The coordinate codec of path objects: OCAD8FileImport::fillPathCoords   *)
(* applied to the points of a legacy object, OCAD8FileExport::             *)
(* exportCoordinates applied to the result, and fillPathCoords again.      *)
(***************************************************************************)
\* the points of the legacy objects, with the flags in the low bytes
PathFlagInputs ==
    { OcadPoint(0, 0, xf, yf) : xf \in {0, PX_CTL1},
                                 yf \in {0, PY_CORNER, PY_HOLE, PY_DASH} }

\* the symbols of the path objects: an area symbol, a dashed line symbol
\* without dash symbol, a plain line symbol
PathSymbolInputs ==
    { [type |-> "Area"],
      [type |-> "Line", dashed |-> TRUE, dash_symbol_empty |-> TRUE],
      [type |-> "Line", dashed |-> FALSE, dash_symbol_empty |-> TRUE] }

PathInputs ==
    { [kind |-> "path", symbol |-> sym, pts |-> pts] :
        sym \in PathSymbolInputs, pts \in SeqsUpTo(PathFlagInputs, MaxPathPoints) }

\* fillPathCoords for a path object of the symbol.  The write to coords[-1]
\* ends the run or lands outside the vector.
PathDecode ==
    /\ pc = "path"
    /\ LET is_area == arg.symbol.type = "Area"
           npts == Len(arg.pts)
           decoded == [op |-> "fillPathCoords",
                       lowest_index |-> LowestCoordIndex(is_area, npts, arg.pts),
                       coords |-> fillPathCoords(TRUE, is_area, npts, arg.pts)]
       IN  \E crash \in IF WritesBeforeCoords(is_area, npts, arg.pts)
                         THEN BOOLEAN ELSE {FALSE} :
             /\ pc' = IF crash THEN "path_crashed" ELSE "path_decoded"
             /\ res' = decoded
    /\ UNCHANGED <<undo_vars, load_vars, stream, stream_written, file, header_major, map_colors,
                   map_symbols, map_objects, ocad_colors, ocad_symbols,
                   ocad_objects, symbol_numbers, symbol_index, text_format_map,
                   color_index, warnings, error, i, last, arg>>

\* exportCoordinates of the decoded coordinates, and the import of the result
PathEncode ==
    /\ pc = "path_decoded"
    /\ LET exported == exportCoordinates(res.coords, arg.symbol)
       IN  res' = [op |-> "exportCoordinates", coords |-> res.coords,
                   lowest_index |-> res.lowest_index,
                   exported |-> exported,
                   back |-> fillPathCoords(TRUE, arg.symbol.type = "Area",
                                           Len(exported), exported)]
    /\ pc' = "path_encoded"
    /\ UNCHANGED <<undo_vars, load_vars, stream, stream_written, file, header_major, map_colors,
                   map_symbols, map_objects, ocad_colors, ocad_symbols,
                   ocad_objects, symbol_numbers, symbol_index, text_format_map,
                   color_index, warnings, error, i, last, arg>>

PathNext ==
    \/ PathDecode
    \/ PathEncode

InitPath ==
    /\ pc = "path"
    /\ stream = "closed"
    /\ stream_written = FALSE
    /\ file = "null"
    /\ header_major = 0
    /\ map_colors = <<>>
    /\ map_symbols = <<>>
    /\ map_objects = <<>>
    /\ ocad_colors = <<>>
    /\ ocad_symbols = <<>>
    /\ ocad_objects = <<>>
    /\ symbol_numbers = {}
    /\ symbol_index = << >>
    /\ text_format_map = << >>
    /\ color_index = << >>
    /\ warnings = <<>>
    /\ error = "none"
    /\ i = 0
    /\ last = NoCall
    /\ arg \in PathInputs
    /\ res = NoValue
    /\ NoLoad
    /\ NoUndo

SpecPath == InitPath /\ [][PathNext]_vars

(***************************************************************************)
(* The undo steps of map_undo.cpp.  An object is a record of its identity  *)
(* (the pointer) and its symbol pointer; layer.objects is MapLayer::objects*)
(* and map_symbols the symbol pointers of the map.  A step is the record   *)
(*   [type, valid, affected_objects, objects, target_symbols, spent]       *)
(* where spent marks a step whose undo() has run.                          *)
(***************************************************************************)
\* seq without its element k / with x put in front of its element k
RemoveAt(seq, k) == SubSeq(seq, 1, k - 1) \o SubSeq(seq, k + 1, Len(seq))

InsertAt(seq, k, x) == SubSeq(seq, 1, k - 1) \o <<x>> \o SubSeq(seq, k, Len(seq))

\* std::sort of seq by the integer keys given (key[k] for seq[k]), ascending;
\* the keys of the steps are distinct
RECURSIVE SortByKey(_, _)
SortByKey(seq, key) ==
    IF seq = <<>> THEN <<>>
    ELSE LET m == CHOOSE k \in DOMAIN seq : \A j \in DOMAIN seq : key[k] <= key[j]
         IN  <<seq[m]>> \o SortByKey(RemoveAt(seq, m), RemoveAt(key, m))

\* the constructors: a valid step without objects
NewUndoStep(type) ==
    [type |-> type, valid |-> TRUE, affected_objects |-> <<>>, objects |-> <<>>,
     target_symbols |-> <<>>, spent |-> FALSE]

\* lines 79-84, ObjectContainingUndoStep::addObject(int, Object*)
addObject(step, existing_index, object) ==
    [step EXCEPT !.affected_objects = Append(@, existing_index),
                 !.objects = Append(@, object)]

\* lines 174-177, DeleteObjectsUndoStep::addObject(int)
addIndex(step, index) == [step EXCEPT !.affected_objects = Append(@, index)]

\* the position in the sequence of the index of the C++ vector, if it is one
ValidIndex(objects, index) == index >= 0 /\ index < Len(objects)

\* the replacement that stores the objects at the index after the recorded one
ReplaceAtNextIndex(objects, index, object) ==
    [objects EXCEPT ![((index + 1) % Len(objects)) + 1] = object]

\* MapLayer::setObject(object, pos, false)
setObject(objects, index, object) == [objects EXCEPT ![index + 1] = object]

\* lines 157-162: the loop of ReplaceObjectsUndoStep::undo from element k.
\* st is [objects, undo_step, ok]; ok is FALSE after an index outside the
\* layer.
RECURSIVE ReplaceObjectsLoop(_, _, _)
ReplaceObjectsLoop(st, step, k) ==
    IF k > Len(step.objects) \/ ~st.ok THEN st
    ELSE LET index == step.affected_objects[k]
         IN  IF ~ValidIndex(st.objects, index) THEN [st EXCEPT !.ok = FALSE]
             ELSE ReplaceObjectsLoop(
                      [objects |-> setObject(st.objects, index, step.objects[k]),
                       undo_step |-> addObject(st.undo_step, index,
                                               st.objects[index + 1]),
                       ok |-> TRUE],
                      step, k + 1)

\* lines 152-166, ReplaceObjectsUndoStep::undo: the layer, the step returned
\* and the step itself afterwards
ReplaceObjectsUndo(step, objects) ==
    LET st == ReplaceObjectsLoop([objects |-> objects,
                                  undo_step |-> NewUndoStep("ReplaceObjects"),
                                  ok |-> TRUE], step, 1)
    IN  st @@ [step |-> [step EXCEPT !.objects = <<>>]]

\* the order of the indices as recorded
KeepOrder(affected_objects) == affected_objects

\* line 184: std::sort(affected_objects.begin(), end(), std::greater<int>())
SortDescending(affected_objects) ==
    SortByKey(affected_objects, [k \in DOMAIN affected_objects |-> -affected_objects[k]])

\* lines 188-192: the loop of DeleteObjectsUndoStep::undo from element k
RECURSIVE DeleteObjectsLoop(_, _, _)
DeleteObjectsLoop(st, affected_objects, k) ==
    IF k > Len(affected_objects) \/ ~st.ok THEN st
    ELSE LET index == affected_objects[k]
         IN  IF ~ValidIndex(st.objects, index) THEN [st EXCEPT !.ok = FALSE]
             ELSE DeleteObjectsLoop(
                      [objects |-> RemoveAt(st.objects, index + 1),
                       undo_step |-> addObject(st.undo_step, index,
                                               st.objects[index + 1]),
                       ok |-> TRUE],
                      affected_objects, k + 1)

\* lines 179-195, DeleteObjectsUndoStep::undo
DeleteObjectsUndo(step, objects) ==
    LET sorted == SortDescending(step.affected_objects)
        st == DeleteObjectsLoop([objects |-> objects,
                                 undo_step |-> NewUndoStep("AddObjects"),
                                 ok |-> TRUE], sorted, 1)
    IN  st @@ [step |-> [step EXCEPT !.affected_objects = sorted]]

\* lines 207-211 and 224-227: the pairs (position in the step, object index)
\* sorted by the object index
SortedOrder(affected_objects) ==
    SortByKey([k \in DOMAIN affected_objects |-> <<k, affected_objects[k]>>],
              affected_objects)

\* lines 215-219: the loop of AddObjectsUndoStep::undo from element k
RECURSIVE AddObjectsLoop(_, _, _, _)
AddObjectsLoop(st, step, order, k) ==
    IF k > Len(step.objects) \/ ~st.ok THEN st
    ELSE LET pos == order[k][2]
         IN  IF pos < 0 \/ pos > Len(st.objects) THEN [st EXCEPT !.ok = FALSE]
             ELSE AddObjectsLoop(
                      [objects |-> InsertAt(st.objects, pos + 1,
                                            step.objects[order[k][1]]),
                       undo_step |-> addIndex(st.undo_step,
                                              step.affected_objects[order[k][1]]),
                       ok |-> TRUE],
                      step, order, k + 1)

\* lines 202-223, AddObjectsUndoStep::undo
AddObjectsUndo(step, objects) ==
    LET st == AddObjectsLoop([objects |-> objects,
                              undo_step |-> NewUndoStep("DeleteObjects"),
                              ok |-> TRUE],
                             step, SortedOrder(step.affected_objects), 1)
    IN  st @@ [step |-> [step EXCEPT !.objects = <<>>]]

\* the undo manager undoes the step that is not spent: undo() changes the
\* layer and returns the step that takes it back
Undo ==
    /\ pc = "undo"
    /\ i < MaxUndos
    /\ \E s \in DOMAIN undo_steps :
         /\ undo_steps[s].valid
         /\ ~undo_steps[s].spent
         /\ undo_steps[s].type \in {"ReplaceObjects", "DeleteObjects", "AddObjects"}
         /\ LET step == undo_steps[s]
                r == CASE step.type = "ReplaceObjects" ->
                            ReplaceObjectsUndo(step, layer.objects)
                       [] step.type = "DeleteObjects" ->
                            DeleteObjectsUndo(step, layer.objects)
                       [] step.type = "AddObjects" ->
                            AddObjectsUndo(step, layer.objects)
            IN  IF ~r.ok
                THEN /\ pc' = "undo_crashed"
                     /\ UNCHANGED <<layer, undo_steps, last, i>>
                ELSE /\ pc' = pc
                     /\ layer' = [layer EXCEPT !.objects = r.objects]
                     /\ undo_steps' =
                            Append([undo_steps EXCEPT ![s] =
                                        [r.step EXCEPT !.spent = TRUE]],
                                   r.undo_step)
                     /\ last' = [op |-> "undo", type |-> step.type,
                                 step |-> step,
                                 objects_before |-> layer.objects,
                                 previous |-> last]
                     /\ i' = i + 1
    /\ UNCHANGED <<load_symbols_only, ocad_setup, rectangle_info, text_halign_map,
                   map_layers, map_templates, view, deleted_objects,
                   stream, stream_written, file, header_major, map_colors,
                   map_symbols, map_objects, ocad_colors, ocad_symbols,
                   ocad_objects, symbol_numbers, symbol_index, text_format_map,
                   color_index, warnings, error, arg, res>>

\* lines 72-77, ObjectContainingUndoStep::~ObjectContainingUndoStep: the
\* step is deleted and deletes the objects it holds
DeleteStep ==
    /\ pc = "undo"
    /\ \E s \in DOMAIN undo_steps :
         /\ deleted_objects' = deleted_objects \o undo_steps[s].objects
         /\ undo_steps' = RemoveAt(undo_steps, s)
    /\ last' = [op |-> "delete"]
    /\ UNCHANGED <<load_vars, pc, stream, stream_written, file, header_major,
                   map_colors, map_symbols, map_objects, ocad_colors, ocad_symbols,
                   ocad_objects, symbol_numbers, symbol_index, text_format_map,
                   color_index, warnings, error, i, arg, res>>

\* lines 134-146 and 292-303: the slots symbolDeleted of a step
symbolDeleted(step, old_symbol) ==
    IF \/ \E k \in DOMAIN step.objects : step.objects[k].symbol = old_symbol
       \/ \E k \in DOMAIN step.target_symbols : step.target_symbols[k] = old_symbol
    THEN [step EXCEPT !.valid = FALSE]
    ELSE step

\* the slot that takes only the first object or target into account
symbolChangedFirstOnly(step, new_symbol, old_symbol) ==
    [step EXCEPT
        !.objects = [k \in DOMAIN @ |->
                        IF k = 1 /\ @[k].symbol = old_symbol
                        THEN [@[k] EXCEPT !.symbol = new_symbol] ELSE @[k]],
        !.target_symbols = [k \in DOMAIN @ |->
                        IF k = 1 /\ @[k] = old_symbol THEN new_symbol ELSE @[k]]]

\* lines 125-133 and 283-291: the slots symbolChanged of a step
symbolChanged(step, new_symbol, old_symbol) ==
    [step EXCEPT
        !.objects = [k \in DOMAIN @ |->
                        IF @[k].symbol = old_symbol
                        THEN [@[k] EXCEPT !.symbol = new_symbol] ELSE @[k]],
        !.target_symbols = [k \in DOMAIN @ |->
                        IF @[k] = old_symbol THEN new_symbol ELSE @[k]]]

\* the map deletes a symbol that no object of the layer uses and emits
\* symbolDeleted(pos, symbol) to every step
SymbolDeleted ==
    /\ pc = "undo"
    /\ \E pos \in DOMAIN map_symbols :
         /\ \A k \in DOMAIN layer.objects : layer.objects[k].symbol # map_symbols[pos]
         /\ undo_steps' = [s \in DOMAIN undo_steps |->
                              symbolDeleted(undo_steps[s], map_symbols[pos])]
         /\ map_symbols' = RemoveAt(map_symbols, pos)
         /\ last' = [op |-> "symbolDeleted", symbol |-> map_symbols[pos],
                     steps_before |-> undo_steps]
    /\ UNCHANGED <<load_vars, pc, stream, stream_written, file, header_major,
                   map_colors, map_objects, ocad_colors, ocad_symbols,
                   ocad_objects, symbol_numbers, symbol_index, text_format_map,
                   color_index, warnings, error, i, arg, res, deleted_objects>>

\* the symbol pointer of a replacement that is not a symbol of the map yet
NewSymbolPointer == 4

\* the map replaces a symbol by a new one, gives the new symbol to the
\* objects of the layer and emits symbolChanged(pos, new, old) to every step
SymbolChanged ==
    /\ pc = "undo"
    /\ \A pos \in DOMAIN map_symbols : map_symbols[pos] # NewSymbolPointer
    /\ \E pos \in DOMAIN map_symbols :
         LET old_symbol == map_symbols[pos]
         IN  /\ undo_steps' = [s \in DOMAIN undo_steps |->
                                  symbolChanged(undo_steps[s], NewSymbolPointer,
                                                old_symbol)]
             /\ layer' = [layer EXCEPT !.objects =
                             [k \in DOMAIN @ |->
                                 IF @[k].symbol = old_symbol
                                 THEN [@[k] EXCEPT !.symbol = NewSymbolPointer]
                                 ELSE @[k]]]
             /\ map_symbols' = [map_symbols EXCEPT ![pos] = NewSymbolPointer]
             /\ last' = [op |-> "symbolChanged", old_symbol |-> old_symbol,
                         new_symbol |-> NewSymbolPointer,
                         steps_before |-> undo_steps]
    /\ UNCHANGED <<load_symbols_only, ocad_setup, rectangle_info, text_halign_map,
                   map_layers, map_templates, view, deleted_objects,
                   pc, stream, stream_written, file, header_major,
                   map_colors, map_objects, ocad_colors, ocad_symbols,
                   ocad_objects, symbol_numbers, symbol_index, text_format_map,
                   color_index, warnings, error, i, arg, res>>

UndoNext ==
    \/ Undo
    \/ DeleteStep
    \/ SymbolDeleted
    \/ SymbolChanged

\* the layers: n objects, with the symbols 1 and 2 in turn
UndoLayerInputs ==
    { [name |-> "default layer",
       objects |-> [k \in 1..n |-> [id |-> k, symbol |-> 2 - (k % 2)]]] :
         n \in 1..MaxLayerObjects }

\* the sequences of distinct elements of S, empty one left out
DistinctSeqs(S) ==
    { f \in UNION { [1..n -> S] : n \in 1..Cardinality(S) } :
        \A a, b \in DOMAIN f : a # b => f[a] # f[b] }

\* the objects a step holds: new objects, all of one symbol
StoredObjects(n, symbol) == [k \in 1..n |-> [id |-> 10 + k, symbol |-> symbol]]

\* the steps recorded for a layer of n objects: the objects are recorded once
\* each, so the indices of a step are distinct, and they are indices of the
\* layer (for a step that adds objects, of the layer with the objects added)
UndoStepInputs(n) ==
    { [NewUndoStep("DeleteObjects") EXCEPT !.affected_objects = f] :
        f \in DistinctSeqs(0..(n - 1)) }
    \cup
    { [NewUndoStep("ReplaceObjects") EXCEPT
          !.affected_objects = f, !.objects = StoredObjects(Len(f), sym)] :
        f \in DistinctSeqs(0..(n - 1)), sym \in {2, 3} }
    \cup
    { [NewUndoStep("AddObjects") EXCEPT
          !.affected_objects = f, !.objects = StoredObjects(Len(f), sym)] :
        f \in { g \in DistinctSeqs(0..n) :
                  \A k \in DOMAIN g :
                      g[k] <= n + Cardinality({ j \in DOMAIN g : g[j] < g[k] }) },
        sym \in {2, 3} }
    \cup
    { [NewUndoStep("SwitchSymbol") EXCEPT
          !.affected_objects = f, !.target_symbols = [k \in DOMAIN f |-> sym]] :
        f \in DistinctSeqs(0..(n - 1)), sym \in {2, 3} }

InitUndo ==
    /\ pc = "undo"
    /\ stream = "closed"
    /\ stream_written = FALSE
    /\ file = "null"
    /\ header_major = 0
    /\ map_colors = <<>>
    /\ map_symbols = <<1, 2, 3>>
    /\ map_objects = <<>>
    /\ ocad_colors = <<>>
    /\ ocad_symbols = <<>>
    /\ ocad_objects = <<>>
    /\ symbol_numbers = {}
    /\ symbol_index = << >>
    /\ text_format_map = << >>
    /\ color_index = << >>
    /\ warnings = <<>>
    /\ error = "none"
    /\ i = 0
    /\ last = NoCall
    /\ res = NoValue
    /\ load_symbols_only = FALSE
    /\ ocad_setup = [zoom |-> 0, center |-> <<0, 0>>, strings |-> <<>>]
    /\ rectangle_info = << >>
    /\ text_halign_map = << >>
    /\ map_layers = <<>>
    /\ map_templates = <<>>
    /\ view = [null |-> TRUE]
    /\ deleted_objects = <<>>
    /\ \E l \in UndoLayerInputs :
         \E step \in UndoStepInputs(Len(l.objects)) :
           /\ layer = l
           /\ undo_steps = <<step>>
           /\ arg = [kind |-> "undo", objects |-> l.objects \o step.objects]

SpecUndo == InitUndo /\ [][UndoNext]_vars

(***************************************************************************)
(* Properties of the export.                                               *)
(***************************************************************************)
RecordNumbers == { ocad_symbols[k].number : k \in DOMAIN ocad_symbols }

\* C1: the legacy symbol records written so far, by exportCommonSymbolFields
\* and by the cloning of text symbols, carry pairwise different numbers, and
\* the reserved-number set holds exactly the numbers given out.
C1_UniqueSymbolNumbers ==
    /\ \A j, k \in DOMAIN ocad_symbols :
           j # k => ocad_symbols[j].number # ocad_symbols[k].number
    /\ symbol_numbers = RecordNumbers

\* an export with a cloned text symbol in which some record had to leave its
\* candidate number, one of them by wrapping around the s16 range
C1_Witness ==
    /\ pc = "export_done"
    /\ Len(ocad_symbols) >
           Cardinality({ k \in DOMAIN map_symbols : map_symbols[k].type # "Combined" })
    /\ \E n \in RecordNumbers :
           n \notin { CandidateNumber(map_symbols[k]) : k \in DOMAIN map_symbols }

HalignCode(halign) ==
    CASE halign = "AlignLeft" -> 0 [] halign = "AlignHCenter" -> 1 [] halign = "AlignRight" -> 2

TextObjects == { o \in DOMAIN map_objects : map_objects[o].type = "Text" }

\* the legacy records written for map object o
RecordsOf(o) == { r \in DOMAIN ocad_objects : ocad_objects[r].object = o }

\* C2: every text object handled by the object loop is exported with a legacy
\* text symbol whose halign is the object's alignment; objects of one symbol
\* with equal alignment share the legacy number, the first object of a symbol
\* uses the originally exported record, and no symbol is cloned twice for
\* one alignment.
C2_TextObjectsUseMatchingSymbol ==
    /\ \A o \in TextObjects :
         \E r \in RecordsOf(o) :
           LET k == ocad_symbol(ocad_symbols, ocad_objects[r].symbol)
           IN  /\ k # 0
               /\ ocad_symbols[k].type = OCAD_TEXT_SYMBOL
               /\ ocad_symbols[k].halign = HalignCode(map_objects[o].halign)
    /\ \A o, q \in TextObjects :
         ( /\ map_objects[o].symbol = map_objects[q].symbol
           /\ map_objects[o].halign = map_objects[q].halign )
         => { ocad_objects[r].symbol : r \in RecordsOf(o) }
              = { ocad_objects[r].symbol : r \in RecordsOf(q) }
    /\ \A s \in DOMAIN text_format_map :
         LET list == text_format_map[s]
         IN  /\ \A e, f \in 1..Len(list) :
                    e # f => map_objects[list[e].object].halign
                               # map_objects[list[f].object].halign
             /\ s \in DOMAIN symbol_index => symbol_index[s] = {list[1].number}

\* the same statement for the text objects whose symbol got a non-negative
\* legacy number, that is, an entry in symbol_index
TextObjectsOfIndexedSymbolsMatch ==
    \A o \in TextObjects :
       map_objects[o].symbol \in DOMAIN symbol_index =>
         /\ Cardinality(RecordsOf(o)) = 1
         /\ \A r \in RecordsOf(o) :
              LET k == ocad_symbol(ocad_symbols, ocad_objects[r].symbol)
              IN  /\ k # 0
                  /\ ocad_symbols[k].type = OCAD_TEXT_SYMBOL
                  /\ ocad_symbols[k].halign = HalignCode(map_objects[o].halign)

(***************************************************************************)
(* Properties of the import and of both directions.                        *)
(***************************************************************************)
ImportRunning == pc \in {"import_colors", "import_symbols", "import_done", "import_fatal"}

ExportRunning ==
    pc \in {"export_colors", "export_symbols", "export_combined", "export_objects",
            "export_done", "export_fatal", "export_crashed"}

\* C3: once the import has passed the version check, a file of major version
\* <= 5 or >= 9 has ended it with a fatal error and the map is still empty; a
\* file of version 6, 7 or 8 never raises the version error.
C3_VersionCheck ==
    /\ (ImportRunning /\ (header_major <= 5 \/ header_major >= 9))
         => /\ pc = "import_fatal"
            /\ error \in {"version", "could not open file"}
            /\ map_colors = <<>> /\ map_symbols = <<>> /\ map_objects = <<>>
    /\ header_major \in 6..8 => error # "version"

\* a file of version 9 that libocad could open and the importer refused
C3_Witness ==
    pc = "import_fatal" /\ error = "version" /\ header_major = 9 /\ file = "open"

\* C4: an export of more than 256 colours has ended fatally with no legacy
\* buffer allocated and nothing written; an export of at most 256 colours
\* never raises that error.
C4_ColorCeiling ==
    /\ (ExportRunning /\ Len(map_colors) > 256)
         => /\ pc = "export_fatal"
            /\ error = "too many colors"
            /\ file = "null"
            /\ ~stream_written
    /\ (ExportRunning /\ Len(map_colors) <= 256) => error # "too many colors"

\* the export of 257 colours, refused
C4_Witness ==
    pc = "export_fatal" /\ error = "too many colors" /\ Len(map_colors) = 257

\* the position of the last legacy colour record with this ordinal
LastRecordOf(ordinal) ==
    CHOOSE k \in DOMAIN ocad_colors :
        /\ ocad_colors[k].number = ordinal
        /\ \A j \in DOMAIN ocad_colors : ocad_colors[j].number = ordinal => j <= k

\* C5: after a lookup of a legacy colour ordinal, an ordinal of no record of
\* the colour table has given the null colour and exactly one warning naming
\* it, with the import still running; an ordinal of the table has given the
\* colour made from its (last) record and no warning.
C5_ColorLookup ==
    last.op = "convertColor" =>
        IF \E k \in DOMAIN ocad_colors : ocad_colors[k].number = last.color
        THEN /\ last.result = LastRecordOf(last.color)
             /\ map_colors[last.result].c = 5 * ocad_colors[last.result].cyan
             /\ Len(warnings) = last.warnings_before
        ELSE /\ last.result = 0
             /\ Len(warnings) = last.warnings_before + 1
             /\ warnings[Len(warnings)].id = last.color
             /\ pc \in {"import_symbols", "import_done"}
             /\ error = "none"

\* the lookup of the ordinal 77 in a file whose colour table has other colours
C5_Witness ==
    /\ last.op = "convertColor" /\ last.color = 77 /\ last.result = 0
    /\ Len(ocad_colors) > 0
    /\ Len(warnings) = 1

\* C6: the colour lists keep the order of their source.  On import the k-th
\* colour of the map is made from the k-th legacy record and has priority
\* k - 1; on export the k-th legacy record is made from the k-th colour of the
\* map and has the ordinal k - 1.
C6_ColorOrder ==
    /\ ImportRunning =>
         /\ Len(map_colors) <= Len(ocad_colors)
         /\ \A k \in DOMAIN map_colors :
              /\ map_colors[k].priority = k - 1
              /\ map_colors[k].c = 5 * ocad_colors[k].cyan
              /\ map_colors[k].m = 5 * ocad_colors[k].magenta
              /\ map_colors[k].y = 5 * ocad_colors[k].yellow
              /\ map_colors[k].k = 5 * ocad_colors[k].black
    /\ ExportRunning =>
         /\ Len(ocad_colors) <= Len(map_colors)
         /\ \A k \in DOMAIN ocad_colors :
              /\ ocad_colors[k].number = k - 1
              /\ 10 * ocad_colors[k].cyan - 5 <= 2 * map_colors[k].c
              /\ 2 * map_colors[k].c < 10 * ocad_colors[k].cyan + 5
              /\ 10 * ocad_colors[k].black - 5 <= 2 * map_colors[k].k
              /\ 2 * map_colors[k].k < 10 * ocad_colors[k].black + 5

\* an export that has written two different colours
C6_Witness ==
    /\ pc = "export_done"
    /\ Len(ocad_colors) = 2
    /\ ocad_colors[1].cyan # ocad_colors[2].cyan

\* C7: when an import or export has ended, normally or with a fatal error,
\* the stream is closed and the legacy file buffer is not left open.
C7_ResourcesReleased ==
    pc \in {"import_done", "import_fatal", "export_done", "export_fatal"}
        => stream = "closed" /\ file # "open"

(***************************************************************************)
(* Properties of the scalar conversions.                                   *)
(***************************************************************************)
IsMultipleOf10(w) == WideMul10(WideDiv10(w)) = w

\* the values an s32 holds
InS32Range(w) == w.hi \in -32768..32767

\* C8 as stated: every multiple of 10 survives export and import, and every
\* legacy size survives import and export.
C8_SizeRoundTripAll ==
    /\ (res.op = "encodeSize" /\ IsMultipleOf10(arg.size)) => res.back = arg.size
    /\ res.op = "decodeSize" => res.back = arg.ocad_size

\* C8 amended: a multiple of 10 whose tenth fits the 32-bit legacy field
\* survives export and import, and every legacy size survives import and
\* export.
C8_SizeRoundTrip ==
    /\ (res.op = "encodeSize" /\ IsMultipleOf10(arg.size)
          /\ InS32Range(WideDiv10(arg.size))) => res.back = arg.size
    /\ res.op = "decodeSize" => res.back = arg.ocad_size

\* the largest size that fits, 21474836470, exported and imported
C8_Witness ==
    /\ res.op = "encodeSize"
    /\ arg.size = WideMul10(Wide(MaxS32))
    /\ res.ocad_size = MaxS32
    /\ res.back = arg.size

\* C9: a legacy point (x, y) is imported as (10 x, -10 y), and exporting that
\* coordinate, by convertPoint or by exportCoordinates, and reading the
\* exported point back gives (x, y).
C9_PointRoundTrip ==
    res.op = "point" =>
        /\ res.coord.x = WideMul10(Wide(arg.x))
        /\ res.coord.y = WideNeg(WideMul10(Wide(arg.y)))
        /\ res.decoded = <<arg.x, arg.y>>
        /\ res.decoded_path = <<arg.x, arg.y>>

\* the corner of the 24-bit range, there and back
C9_Witness ==
    /\ res.op = "point"
    /\ arg.x = -8388608 /\ arg.y = 8388607
    /\ res.coord.y = Wide(-83886070)
    /\ res.decoded = <<arg.x, arg.y>>

\* C10: the imported rotation lies in [0, 2 pi), and exporting it gives the
\* input modulo 3600.
C10_RotationNormalized ==
    res.op = "rotation" =>
        /\ 0 <= res.radians /\ res.radians < 3600
        /\ res.back % 3600 = arg.angle % 3600

(***************************************************************************)
(* Properties of the string encoder.                                       *)
(***************************************************************************)
\* C11: a text longer than W-1 is written into a field of width W as the
\* length byte W-1 followed by exactly W-1 payload bytes, with one truncation
\* warning; a text of at most W-1 characters is written with its own length
\* in the length byte and no warning.
C11_PascalStringTruncation ==
    (pc = "scalar_done" /\ res.op = "pascalString") =>
        LET W == arg.buffer_size
            n == Len(arg.text)
        IN  IF n > W - 1
            THEN /\ res.written[1] = W - 1
                 /\ Len(res.written) - 1 = W - 1
                 /\ Len(warnings) = 1
                 /\ warnings[1].text = "String truncated (truncation marked with three '|')"
            ELSE /\ res.written[1] = n
                 /\ Len(res.written) - 1 = n
                 /\ warnings = <<>>

\* 300 characters into a field of 32 bytes: 31 payload bytes, length byte 31
C11_Witness ==
    /\ pc = "scalar_done"
    /\ res.op = "pascalString"
    /\ Len(arg.text) = 300
    /\ arg.buffer_size = NameFieldWidth
    /\ res.written[1] = 31
    /\ Len(res.written) = 32
    /\ Len(warnings) = 1

(***************************************************************************)
(* Properties of the object import.                                        *)
(***************************************************************************)
\* the import layer exists
LayerExists ==
    ~load_symbols_only
    /\ pc \in {"import_objects", "import_close", "import_done", "import_crashed"}

\* the path objects that fillPathCoords filled
ImportedPaths ==
    IF LayerExists
    THEN { k \in DOMAIN layer.objects :
             layer.objects[k].type = "Path" /\ ~layer.objects[k].rectangle }
    ELSE {}

\* the last points of the parts of a path: the hole points and the last point
PartEnds(coords) ==
    { k \in DOMAIN coords : coords[k].hole_point \/ k = Len(coords) }

\* the first point of the part that the point k belongs to
PartStart(coords, k) ==
    LET before == { e \in PartEnds(coords) : e < k }
    IN  IF before = {} THEN 1
        ELSE (CHOOSE e \in before : \A f \in before : f <= e) + 1

\* C12: in a decoded path object the point sequence is partitioned at the
\* hole points, and a point is a close-point exactly when it is the last point
\* of a partition and its position equals the position of the partition's
\* first point; a 4-point path without holes is closed exactly when the
\* coordinates of its first and last legacy point are identical.
C12_ClosedParts ==
    /\ \A p \in ImportedPaths :
         LET coords == layer.objects[p].coords
         IN  \A k \in DOMAIN coords :
               coords[k].close_point <=>
                   /\ k \in PartEnds(coords)
                   /\ coords[k].x = coords[PartStart(coords, k)].x
                   /\ coords[k].y = coords[PartStart(coords, k)].y
    /\ (/\ pc = "import_objects"
        /\ last.op = "importObject"
        /\ Len(layer.objects) = last.objects_before + 1
        /\ layer.objects[Len(layer.objects)].type = "Path"
        /\ last.ocad_object.npts = 4
        /\ \A k \in 1..4 : ~HasBit(last.ocad_object.pts[k].y % 256, PY_HOLE))
       => LET pts == last.ocad_object.pts
              coords == layer.objects[Len(layer.objects)].coords
          IN  /\ (pts[1].x \div 256 = pts[4].x \div 256
                   /\ pts[1].y \div 256 = pts[4].y \div 256)
                  => coords[4].close_point
              /\ (pts[4].x \div 256 = pts[1].x \div 256 + 1
                   \/ pts[4].x \div 256 = pts[1].x \div 256 - 1)
                  => ~coords[4].close_point

\* a path of two parts, the second one closed on a point that is not the
\* first point of the path
C12_Witness ==
    \E p \in ImportedPaths :
        LET coords == layer.objects[p].coords
        IN  /\ Len(coords) = 4
            /\ coords[2].hole_point
            /\ coords[4].close_point
            /\ coords[4].x # coords[1].x

(***************************************************************************)
(* Properties of the line symbol import.                                   *)
(***************************************************************************)
\* the symbol loop has just imported a line symbol record
LineImported ==
    /\ pc = "import_symbols"
    /\ last.op = "importSymbol"
    /\ last.ocad_symbol.type = OCAD_LINE_SYMBOL

\* the warnings the last step added
NewWarnings == SubSeq(warnings, last.warnings_before + 1, Len(warnings))

\* the record of the dash example, with non-pointed caps, no framing line and
\* a registered colour
DashExample(o) ==
    /\ o.len = 100 /\ o.gap = 20 /\ o.gap2 = 0 /\ o.elen = 100
    /\ o.ends \notin {2, 3, 6}
    /\ o.fwidth = 0
    /\ o.color \in DOMAIN color_index

\* the result of the dash example: a dashed line with the decoded lengths
DashExampleResult(symbol) ==
    /\ symbol.type = "Line"
    /\ symbol.dashed
    /\ symbol.dash_length = convertSize16(100)
    /\ symbol.break_length = convertSize16(20)
    /\ symbol.dashes_in_group = 1
    /\ ~symbol.half_outer_dashes
    /\ NewWarnings = <<>>

MainLineOf(symbol) == IF symbol.type = "Combined" THEN symbol.parts[1] ELSE symbol

\* the warnings about the end length
EndLengthWarnings ==
    SelectSeq(NewWarnings,
              LAMBDA w : w.text \in {"the end length cannot be imported correctly",
                                      "main and end length are different"})

\* the three dash sub-cases
DashSpecialCase(o) == o.gap2 > 0 /\ o.gap = 0

DashGroupedCase(o) == o.gap2 > 0 /\ o.gap # 0

DashDefaultCase(o) == o.gap > 0 /\ o.gap2 <= 0

\* a dashed main line was imported
DashedLineImported ==
    /\ LineImported
    /\ HasMainLine(last.ocad_symbol)
    /\ (last.ocad_symbol.gap > 0 \/ last.ocad_symbol.gap2 > 0)

\* what C14 says of a dashed line: the end length differing from the main
\* length and lying outside len/2 +/- 1 gives a warning and a dash length
\* derived from the main length; the end length differing from the main
\* length and lying inside gives the half-outer-dash flag
EndLengthHandled(o, main) ==
    /\ (o.elen # o.len /\ ~NearHalf(o.elen, o.len)) =>
           /\ Len(EndLengthWarnings) = 1
           /\ main.dash_length \in { convertSize16(o.len),
                                     convertSize16(o.len - o.gap2),
                                     CDiv(convertSize16(o.len) - convertSize16(o.gap2), 2) }
    /\ (o.elen # o.len /\ NearHalf(o.elen, o.len)) =>
           /\ main.half_outer_dashes
           /\ EndLengthWarnings = <<>>

\* C14: in all three dash sub-cases of the line symbol import, an end length
\* that differs from the main length and lies outside len/2 +/- 1 gives a
\* warning and a dash length derived from the main length, and one that lies
\* inside sets the half-outer-dash flag.
C14_EndLengthAllCases ==
    DashedLineImported => EndLengthHandled(last.ocad_symbol, MainLineOf(last.result))

\* the same for the grouped and the default sub-case only
EndLengthGroupedAndDefault ==
    (DashedLineImported /\ ~DashSpecialCase(last.ocad_symbol))
        => EndLengthHandled(last.ocad_symbol, MainLineOf(last.result))

\* C15: the line symbol import always returns a symbol; a main line exists
\* iff dmode = 0 or width > 0 and a double line iff dmode # 0; with both, the
\* result is a combined symbol of exactly 2 parts, the main line first and the
\* double line second, the parts neither hidden nor protected whatever the
\* status bits are, and the combined symbol carrying the status flags.
C15_LineSymbolParts ==
    LineImported =>
        LET o == last.ocad_symbol
            first == last.symbols_before + 1
            symbol == map_symbols[first]
            is_main(s) == s.type = "Line" /\ s.line_width = convertSize16(o.width)
                          /\ "minimum_length" \in DOMAIN s
            is_double(s) == s.type = "Line" /\ s.line_width = convertSize16(o.dwidth)
                            /\ "minimum_length" \notin DOMAIN s
            main == o.dmode = 0 \/ o.width > 0
            double == o.dmode # 0
        IN  /\ Len(map_symbols) >= first
            /\ symbol_index[o.number] = first
            /\ main \/ double
            /\ (main /\ ~double) => (is_main(symbol) /\ Len(map_symbols) = first)
            /\ (double /\ ~main) => (is_double(symbol) /\ Len(map_symbols) = first)
            /\ (main /\ double) =>
                   /\ symbol.type = "Combined"
                   /\ symbol.parts = <<first + 1, first + 2>>
                   /\ Len(map_symbols) = first + 2
                   /\ is_main(map_symbols[first + 1])
                   /\ is_double(map_symbols[first + 2])
                   /\ \A k \in {first + 1, first + 2} :
                         ~map_symbols[k].is_hidden /\ ~map_symbols[k].is_protected
                   /\ symbol.is_protected = HasBit(o.status, 1)
                   /\ symbol.is_hidden = HasBit(o.status, 2)

\* a hidden and protected line symbol with main and double line
C15_Witness ==
    /\ LineImported
    /\ last.ocad_symbol.status = 3
    /\ last.ocad_symbol.dmode # 0
    /\ last.ocad_symbol.width > 0
    /\ map_symbols[last.symbols_before + 1].type = "Combined"
    /\ map_symbols[last.symbols_before + 1].is_hidden
    /\ ~map_symbols[last.symbols_before + 2].is_hidden

(***************************************************************************)
(* Properties of the text symbol import.                                   *)
(***************************************************************************)
\* the symbol loop has just imported a text symbol record
TextImported ==
    /\ pc = "import_symbols"
    /\ last.op = "importSymbol"
    /\ last.ocad_symbol.type = OCAD_TEXT_SYMBOL

\* the number of new warnings with the given text
NewWarningCount(text) == Len(SelectSeq(NewWarnings, LAMBDA w : w.text = text))

\* the text objects that importObject made
ImportedTexts ==
    IF LayerExists
    THEN { k \in DOMAIN layer.objects :
             layer.objects[k].type = "Text" /\ ~layer.objects[k].rectangle }
    ELSE {}

\* C16: the text symbol import maps the legacy halign 0, 1, 2 to left, centre,
\* right; halign 3 (justified) records a warning and falls back to centre; the
\* text objects imported with a text symbol get the alignment recorded for it.
C16_TextAlignment ==
    /\ TextImported =>
          LET o == last.ocad_symbol
              recorded == text_halign_map[last.symbols_before + 1]
          IN  /\ o.halign = 0 => recorded = "AlignLeft"
              /\ o.halign = 1 => recorded = "AlignHCenter"
              /\ o.halign = 2 => recorded = "AlignRight"
              /\ o.halign = 3 => recorded = "AlignHCenter"
              /\ NewWarningCount("ignoring justified alignment")
                     = (IF o.halign = 3 THEN 1 ELSE 0)
    /\ \A t \in ImportedTexts :
          /\ layer.objects[t].symbol \in DOMAIN text_halign_map
          /\ layer.objects[t].halign = text_halign_map[layer.objects[t].symbol]

\* a text object of a justified text symbol, imported centred
C16_Witness ==
    \E t \in ImportedTexts :
        /\ layer.objects[t].halign = "AlignHCenter"
        /\ \E k \in DOMAIN ocad_symbols :
              /\ ocad_symbols[k].type = OCAD_TEXT_SYMBOL
              /\ ocad_symbols[k].halign = 3
              /\ ocad_symbols[k].number = layer.objects[t].ocad_symbol
        /\ \E w \in DOMAIN warnings : warnings[w].text = "ignoring justified alignment"

\* the import did not fail on the text symbol: the symbol is in the map and
\* registered for its number
TextSymbolAdded ==
    /\ Len(map_symbols) = last.symbols_before + 1
    /\ map_symbols[Len(map_symbols)].type = "Text"
    /\ symbol_index[last.ocad_symbol.number] = Len(map_symbols)
    /\ error = "none"

\* one warning for each of the four text options with a warning of its own
FourOptionWarnings(o) ==
    /\ NewWarningCount("ignoring custom weight")
           = (IF o.bold # 400 /\ o.bold # 700 THEN 1 ELSE 0)
    /\ NewWarningCount("custom character spacing is set")
           = (IF o.cspace # 0 THEN 1 ELSE 0)
    /\ NewWarningCount("ignoring custom word spacing")
           = (IF o.wspace # 100 THEN 1 ELSE 0)
    /\ NewWarningCount("ignoring custom indents")
           = (IF o.indent1 # 0 \/ o.indent2 # 0 THEN 1 ELSE 0)

\* C17 as stated: importing a legacy text symbol records one distinct warning
\* naming the field for each of these conditions that holds, and does not
\* fail: custom weight other than 400/700, non-zero character spacing, word
\* spacing other than 100, non-zero indents, underline.  (The legacy record
\* has no kerning field.)
C17_TextWarningsWithUnderline ==
    TextImported =>
        /\ TextSymbolAdded
        /\ FourOptionWarnings(last.ocad_symbol)
        /\ NewWarningCount("ignoring underlining")
               = (IF last.ocad_symbol.under # 0 THEN 1 ELSE 0)

\* C17, amended: one distinct warning for each of custom weight, character
\* spacing, word spacing and indents; the legacy underline flag is imported as
\* a line below the text without a warning, and the imported symbol has
\* underline and kerning off.
C17_TextWarnings ==
    TextImported =>
        LET symbol == map_symbols[Len(map_symbols)]
        IN  /\ TextSymbolAdded
            /\ FourOptionWarnings(last.ocad_symbol)
            /\ symbol.line_below = (last.ocad_symbol.under # 0)
            /\ ~symbol.underline
            /\ ~symbol.kerning
            /\ \A w \in DOMAIN NewWarnings :
                  NewWarnings[w].text \in
                      {"ignoring custom weight", "custom character spacing is set",
                       "ignoring custom word spacing", "ignoring custom indents",
                       "ignoring justified alignment", "ignoring text framing"}

\* a text symbol with all four options and the underline flag set
C17_Witness ==
    /\ TextImported
    /\ last.ocad_symbol.bold = 550
    /\ last.ocad_symbol.cspace # 0
    /\ last.ocad_symbol.wspace # 100
    /\ last.ocad_symbol.indent2 # 0
    /\ last.ocad_symbol.under # 0
    /\ Len(NewWarnings) = 4
    /\ map_symbols[Len(map_symbols)].line_below

(***************************************************************************)
(* Properties of the rectangle symbols and of the symbols of the objects.  *)
(***************************************************************************)
\* the symbol loop has just imported a rectangle symbol record
RectImported ==
    /\ pc = "import_symbols"
    /\ last.op = "importRectSymbol"

\* the symbol pointers registered for legacy numbers
RegisteredSymbols == { symbol_index[n] : n \in DOMAIN symbol_index }

\* C18: a legacy rectangle symbol adds exactly 1 modern symbol (the border
\* line) when the grid flag is clear and exactly 3 (border line, inner grid
\* line, numbering text) when it is set; the grid line and the text keep the
\* two-level number of the rectangle and get the third number component 1 and
\* 2; the rectangle is registered in the rectangle side-table and not in the
\* map from legacy numbers to symbols.
C18_RectangleExpansion ==
    RectImported =>
        LET o == last.ocad_symbol
            first == last.symbols_before + 1
            added == Len(map_symbols) - last.symbols_before
            number == <<CDiv(o.number, 10), CMod(o.number, 10)>>
            two_level(s) == <<s.number[1], s.number[2]>>
        IN  /\ added = (IF HasBit(o.flags, 1) THEN 3 ELSE 1)
            /\ map_symbols[first].type = "Line"
            /\ two_level(map_symbols[first]) = number
            /\ HasBit(o.flags, 1) =>
                   /\ map_symbols[first + 1].type = "Line"
                   /\ map_symbols[first + 2].type = "Text"
                   /\ two_level(map_symbols[first + 1]) = number
                   /\ two_level(map_symbols[first + 2]) = number
                   /\ map_symbols[first + 1].number[3] = 1
                   /\ map_symbols[first + 2].number[3] = 2
            /\ o.number \in DOMAIN rectangle_info
            /\ rectangle_info[o.number].border_line = first
            /\ rectangle_info[o.number].has_grid = HasBit(o.flags, 1)
            /\ \A k \in first..Len(map_symbols) : k \notin RegisteredSymbols

\* a rectangle with grid, expanded into three symbols
C18_Witness ==
    /\ RectImported
    /\ HasBit(last.ocad_symbol.flags, 1)
    /\ Len(map_symbols) = last.symbols_before + 3
    /\ map_symbols[Len(map_symbols)].number = <<1, 5, 2>>

\* the objects of the import layer
LayerObjects == IF LayerExists THEN DOMAIN layer.objects ELSE {}

\* C19: every imported object that is added to the import layer has a symbol
\* that is the symbol registered for its legacy symbol number (in the symbol
\* map, or in the rectangle table for a rectangle) or a reserved undefined
\* symbol; for an unregistered number that is not a rectangle, an object of
\* type 1 gets the undefined point symbol, an object of type 2 or 3 the
\* undefined line symbol, and an object of any other type is dropped with a
\* warning.
C19_ObjectSymbols ==
    /\ \A k \in LayerObjects :
          LET object == layer.objects[k]
              n == object.ocad_symbol
          IN  IF n \in DOMAIN symbol_index
              THEN object.symbol = symbol_index[n]
              ELSE IF n \in DOMAIN rectangle_info
              THEN /\ object.rectangle
                   /\ object.symbol \in
                          {rectangle_info[n].border_line}
                          \cup (IF rectangle_info[n].has_grid
                                THEN {rectangle_info[n].inner_line, rectangle_info[n].text}
                                ELSE {})
              ELSE object.symbol \in {UndefinedPoint, UndefinedLine}
    /\ (/\ pc = "import_objects"
        /\ last.op = "importObject"
        /\ last.ocad_object.symbol \notin DOMAIN symbol_index
        /\ last.ocad_object.symbol \notin DOMAIN rectangle_info)
       => LET o == last.ocad_object
              added == Len(layer.objects) - last.objects_before
          IN  /\ o.type = 1 =>
                     /\ added = 1
                     /\ layer.objects[Len(layer.objects)].symbol = UndefinedPoint
              /\ o.type \in {2, 3} =>
                     /\ added = 1
                     /\ layer.objects[Len(layer.objects)].symbol = UndefinedLine
              /\ o.type \notin {1, 2, 3} =>
                     /\ added = 0
                     /\ NewWarnings = <<[text |-> "Unable to load object"]>>

\* an area object of an unregistered number imported with the undefined line
\* symbol, after a text object of that number was dropped with a warning
C19_Witness ==
    /\ pc = "import_objects"
    /\ last.op = "importObject"
    /\ last.ocad_object.symbol \notin DOMAIN symbol_index
    /\ last.ocad_object.type = 3
    /\ Len(layer.objects) = 1
    /\ layer.objects[1].symbol = UndefinedLine
    /\ \E w \in DOMAIN warnings : warnings[w].text = "Unable to load object"

(***************************************************************************)
(* Properties of the import modes.                                         *)
(***************************************************************************)
\* the object loop and the layer replacement are over
ObjectsLoaded == pc \in {"import_close", "import_done"}

\* every record of the symbol table with a number and a known type has been
\* decoded into the map, and every colour record into a map colour
SymbolsDecoded ==
    /\ Len(map_colors) = Len(ocad_colors)
    /\ \A k \in DOMAIN ocad_symbols :
          LET o == ocad_symbols[k]
          IN  /\ (o.number # 0 /\ o.type \in {OCAD_POINT_SYMBOL, OCAD_LINE_SYMBOL,
                                               OCAD_AREA_SYMBOL, OCAD_TEXT_SYMBOL})
                    => /\ o.number \in DOMAIN symbol_index
                       /\ symbol_index[o.number] \in DOMAIN map_symbols
              /\ (o.number # 0 /\ o.type = OCAD_RECT_SYMBOL)
                    => /\ o.number \in DOMAIN rectangle_info
                       /\ rectangle_info[o.number].border_line \in DOMAIN map_symbols

\* C20: in symbols-only mode the import decodes the colours and the symbols
\* but leaves the layers (with their objects) and the templates of the map
\* and the zoom and centre of the view unchanged; when the mode is off, all
\* decoded objects go into one single new import layer that replaces layer 0:
\* the number of layers stays and the other layers stay as they are.
C20_ImportModes ==
    /\ [](ObjectsLoaded => SymbolsDecoded)
    /\ [](load_symbols_only => layer = <<>>)
    /\ [][load_symbols_only => UNCHANGED <<map_layers, map_templates, view>>]_vars
    /\ []((ObjectsLoaded /\ ~load_symbols_only) =>
             /\ map_layers[1] = layer
             /\ layer.name = "OCAD import layer"
             /\ \A k \in 2..Len(map_layers) :
                   map_layers[k].name # "OCAD import layer")
    /\ [][/\ Len(map_layers') = Len(map_layers)
          /\ \A k \in 2..Len(map_layers) : map_layers'[k] = map_layers[k]
          /\ map_layers'[1] # map_layers[1] =>
                 (~load_symbols_only /\ map_layers'[1] = layer)]_vars

\* a symbols-only import of a file with a symbol, an object, a template and
\* a zoom that differs from the zoom of the view, finished with the map's
\* own layers and template and the view's own zoom in place
C20_Witness ==
    /\ pc = "import_done"
    /\ load_symbols_only
    /\ map_symbols # <<>>
    /\ ocad_objects # <<>>
    /\ ImportedTemplates(ocad_setup.strings) # <<>>
    /\ map_templates = << [path |-> "old.png"] >>
    /\ Len(map_layers) = 2
    /\ map_layers[1].name = "default layer"
    /\ ~view.null
    /\ view.zoom = 16
    /\ ocad_setup.zoom = 32

\* an import with the mode off, finished with the rectangle object of the
\* file in the import layer, in front of the second layer of the map
ImportLayerReplacesFirst ==
    /\ pc = "import_done"
    /\ ~load_symbols_only
    /\ Len(map_layers) = 2
    /\ map_layers[1].name = "OCAD import layer"
    /\ map_layers[1].objects # <<>>
    /\ map_layers[2].name = "second layer"

(***************************************************************************)
(* Properties of the two symbol passes of the export.                      *)
(***************************************************************************)
\* the simple (non-combined) symbols of the map
SimpleSymbols == { k \in DOMAIN map_symbols : map_symbols[k].type # "Combined" }

\* the legacy record written for the simple symbol k in the first pass
RecordOf(k) == ocad_symbols[Cardinality({ j \in SimpleSymbols : j <= k })]

\* both symbol passes are over
SymbolPassesDone == pc \in {"export_objects", "export_done"}

\* the first pass writes the simple symbols and gives no combined symbol a
\* number set; the second pass starts when every simple symbol is written
TwoPasses ==
    /\ pc = "export_symbols" =>
           \A k \in DOMAIN symbol_index : map_symbols[k].type # "Combined"
    /\ pc = "export_combined" => Len(ocad_symbols) = Cardinality(SimpleSymbols)

\* the number set of a combined symbol holds only numbers assigned to simple
\* symbols of its closure
OnlyClosureNumbers ==
    SymbolPassesDone =>
        \A k \in DOMAIN map_symbols :
            map_symbols[k].type = "Combined" =>
                /\ k \in DOMAIN symbol_index
                /\ \A n \in symbol_index[k] :
                      \E j \in SymbolUseClosure({k}) \cap SimpleSymbols :
                          RecordOf(j).number = n

\* C21: export writes the symbols in two passes, every non-combined symbol
\* first and the combined symbols second; the number set of a combined
\* symbol holds only legacy numbers already assigned to symbols of its
\* transitive symbol-use closure, and holds the number of every simple symbol
\* of that closure that was exported.
C21_CombinedNumberSets ==
    /\ TwoPasses
    /\ OnlyClosureNumbers
    /\ SymbolPassesDone =>
           \A k \in DOMAIN map_symbols :
               map_symbols[k].type = "Combined" =>
                   \A j \in SymbolUseClosure({k}) \cap SimpleSymbols :
                       RecordOf(j).number \in symbol_index[k]

\* the same for the simple symbols written with a number that is not negative
CombinedNumberSetsOfIndexed ==
    /\ TwoPasses
    /\ OnlyClosureNumbers
    /\ SymbolPassesDone =>
           \A k \in DOMAIN map_symbols :
               map_symbols[k].type = "Combined" =>
                   \A j \in SymbolUseClosure({k}) \cap SimpleSymbols :
                       RecordOf(j).number >= 0 =>
                           RecordOf(j).number \in symbol_index[k]

(***************************************************************************)
(* Properties of the point pattern import.                                 *)
(***************************************************************************)
\* the symbol loop has just imported a point symbol record
PointImported ==
    /\ pc = "import_symbols"
    /\ last.op = "importSymbol"
    /\ last.ocad_symbol.type = OCAD_POINT_SYMBOL

\* the circle fields of the symbol are the ones of the dot or circle element
CollapsedInto(symbol, elt) ==
    IF elt.type = "dot"
    THEN /\ symbol.inner_radius = CDiv(convertSize16(elt.diameter), 2)
         /\ symbol.inner_color = convertColor(elt.color).result
         /\ symbol.outer_width = 0
         /\ symbol.outer_color = 0
    ELSE /\ symbol.inner_radius =
                CDiv(convertSize16(elt.diameter), 2) - convertSize16(elt.width)
         /\ symbol.inner_color = 0
         /\ symbol.outer_width = convertSize16(elt.width)
         /\ symbol.outer_color = convertColor(elt.color).result

\* a dot with a positive radius, or a circle with a positive line width and
\* a positive inner radius
Drawable(elt) ==
    \/ elt.type = "dot" /\ CDiv(convertSize16(elt.diameter), 2) > 0
    \/ /\ elt.type = "circle"
       /\ convertSize16(elt.width) > 0
       /\ CDiv(convertSize16(elt.diameter), 2) - convertSize16(elt.width) > 0

\* the elements of the symbol that are nested point symbols
NestedPoints(symbol) ==
    { k \in DOMAIN symbol.elements : symbol.elements[k].object.type = "Point" }

\* C22 as stated: a pattern of exactly one dot or circle element collapses
\* into the inner and outer circle fields of the parent point symbol and
\* adds no element to it; a dot or circle becomes a nested point symbol only
\* when the pattern holds more than one element.
C22_PatternCollapseAnyElement ==
    PointImported =>
        LET elements == last.ocad_symbol.elements
            symbol == last.result
        IN  /\ (Len(elements) = 1 /\ elements[1].type \in {"dot", "circle"}) =>
                   /\ symbol.elements = <<>>
                   /\ CollapsedInto(symbol, elements[1])
            /\ NestedPoints(symbol) # {} => Len(elements) > 1

\* C22: a pattern of exactly one drawable dot or circle element (positive
\* inner radius, and for a circle a positive line width) collapses into the
\* circle fields of the parent point symbol and adds no element to it; a dot
\* or circle that is not drawable changes no field and adds no element; in a
\* pattern of more than one element every drawable dot or circle becomes one
\* nested point symbol, and no nested point symbol exists otherwise.
C22_PatternCollapse ==
    PointImported =>
        LET elements == last.ocad_symbol.elements
            symbol == last.result
            drawable == { k \in DOMAIN elements : Drawable(elements[k]) }
        IN  /\ (Len(elements) = 1 /\ elements[1].type \in {"dot", "circle"}) =>
                   /\ symbol.elements = <<>>
                   /\ IF Drawable(elements[1])
                      THEN CollapsedInto(symbol, elements[1])
                      ELSE /\ symbol.inner_radius = NewPointSymbol.inner_radius
                           /\ symbol.inner_color = NewPointSymbol.inner_color
                           /\ symbol.outer_width = NewPointSymbol.outer_width
                           /\ symbol.outer_color = NewPointSymbol.outer_color
            /\ NestedPoints(symbol) # {} => Len(elements) > 1
            /\ Len(elements) > 1 =>
                   Cardinality(NestedPoints(symbol)) = Cardinality(drawable)

\* a lone dot of diameter 40 collapsed into the inner circle of the symbol
C22_Witness ==
    /\ PointImported
    /\ Len(last.ocad_symbol.elements) = 1
    /\ last.ocad_symbol.elements[1].type = "dot"
    /\ last.ocad_symbol.elements[1].diameter = 40
    /\ last.result.inner_radius = 200
    /\ last.result.inner_color = 1
    /\ last.result.elements = <<>>

(***************************************************************************)
(* Properties of the area symbol export.                                   *)
(***************************************************************************)
\* the hatch of an area symbol has been exported
HatchExported == pc = "scalar_done" /\ res.op = "areaHatch"

\* the line patterns of the symbol that did not go into the record
DroppedLinePatterns ==
    { k \in DOMAIN arg.patterns :
        arg.patterns[k].type = "LinePattern" /\ k \notin res.ocad_symbol.written }

\* C23: no feature is dropped silently on export of an area symbol: whenever
\* a line fill pattern of the modern symbol is not written to the legacy
\* record, including every line pattern beyond the second, a warning is
\* recorded.
C23_NoSilentHatchDrop ==
    HatchExported => Cardinality(DroppedLinePatterns) <= Len(warnings)

\* the same for the line patterns up to the second one written
NoSilentHatchDropBeforeSecond ==
    HatchExported =>
        LET last_written ==
                IF res.ocad_symbol.hmode = 2
                THEN CHOOSE k \in res.ocad_symbol.written :
                         \A j \in res.ocad_symbol.written : j <= k
                ELSE Len(arg.patterns)
        IN  Cardinality({ k \in DroppedLinePatterns : k <= last_written })
                = Len(warnings)

(***************************************************************************)
(* Properties of the point flags of path objects.                          *)
(***************************************************************************)
\* the flag bytes of the legacy point k
XFlags(pts, k) == pts[k].x % 256

YFlags(pts, k) == pts[k].y % 256

\* the flags of a decoded coordinate that the claim is about
Flags(coord) == <<coord.curve_start, coord.dash_point, coord.hole_point>>

\* C24: the control-point-1 flag on point i marks point i-1 as curve start;
\* a dash or corner flag marks point i itself as dash point; the hole flag on
\* point i marks point i-1 as hole point for area paths and point i itself
\* for line paths.  Encoding the decoded flags of an area path with
\* exportCoordinates and decoding again gives the same curve-start, dash and
\* hole flags.
C24_FlagAttribution ==
    /\ pc \in {"path_decoded", "path_encoded"} =>
          LET pts == arg.pts
              n == Len(pts)
              is_area == arg.symbol.type = "Area"
          IN  /\ Len(res.coords) = n
              /\ \A k \in 1..n :
                    /\ res.coords[k].curve_start
                          <=> (k < n /\ HasBit(XFlags(pts, k + 1), PX_CTL1))
                    /\ res.coords[k].dash_point
                          <=> (HasBit(YFlags(pts, k), PY_DASH)
                               \/ HasBit(YFlags(pts, k), PY_CORNER))
                    /\ res.coords[k].hole_point
                          <=> IF is_area
                              THEN k < n /\ HasBit(YFlags(pts, k + 1), PY_HOLE)
                              ELSE HasBit(YFlags(pts, k), PY_HOLE)
    /\ (pc = "path_encoded" /\ arg.symbol.type = "Area") =>
          /\ Len(res.back) = Len(res.coords)
          /\ \A k \in DOMAIN res.coords :
                Flags(res.back[k]) = Flags(res.coords[k])

\* an area path of three points decoded with a curve start on the first
\* point and hole and dash on the second, encoded and decoded again
C24_Witness ==
    /\ pc = "path_encoded"
    /\ arg.symbol.type = "Area"
    /\ Len(res.coords) = 3
    /\ Flags(res.coords[1]) = <<TRUE, FALSE, FALSE>>
    /\ Flags(res.coords[2]) = <<FALSE, TRUE, TRUE>>
    /\ Flags(res.back[2]) = <<FALSE, TRUE, TRUE>>
    /\ HasBit(YFlags(res.exported, 3), PY_HOLE)

\* C25: fillPathCoords only reads and writes coordinate indices in
\* [0, npts): for every flag combination on every point, including the hole
\* flag or the control-point-1 flag on the first point of an area path, no
\* point before index 0 is accessed.
C25_IndicesInRange ==
    pc \in {"path_decoded", "path_encoded", "path_crashed"} =>
        res.lowest_index >= 0

\* the same for the paths that are no area, and for the area paths without
\* the hole flag on the first point
IndicesInRangeWithoutFirstHole ==
    (/\ pc \in {"path_decoded", "path_encoded", "path_crashed"}
     /\ \/ arg.symbol.type # "Area"
        \/ arg.pts = <<>>
        \/ ~HasBit(YFlags(arg.pts, 1), PY_HOLE))
    => /\ res.lowest_index >= 0
       /\ pc # "path_crashed"

(***************************************************************************)
(* Properties of the undo steps.                                           *)
(***************************************************************************)
\* the step returned by the undo() that has just run
ReturnedStep == undo_steps[Len(undo_steps)]

\* an undo() of a step of this type has just run
Undone(type) == pc = "undo" /\ last.op = "undo" /\ last.type = type

\* the undo() before it undid a step of this type, and nothing happened in
\* between
UndoneBefore(type) == last.previous.op = "undo" /\ last.previous.type = type

\* the integers of the sequence go down / go up
Descending(seq) == \A a, b \in DOMAIN seq : a < b => seq[a] > seq[b]

Ascending(seq) == \A a, b \in DOMAIN seq : a < b => seq[a] < seq[b]

\* the indices of the sequence, as a set
Indices(seq) == { seq[k] : k \in DOMAIN seq }

\* the objects left when the objects at the indices are taken out
RECURSIVE Without(_, _)
Without(objects, indices) ==
    IF objects = <<>> THEN <<>>
    ELSE Without(SubSeq(objects, 1, Len(objects) - 1), indices)
         \o (IF (Len(objects) - 1) \in indices THEN <<>>
             ELSE <<objects[Len(objects)]>>)

\* C27: undo of object deletion and addition are inverse: for distinct valid
\* indices DeleteObjectsUndoStep::undo removes the objects in descending
\* index order and returns an AddObjectsUndoStep, and undoing that step
\* re-inserts the objects in ascending index order, so that the layer again
\* holds the same objects at the same indices as before the first undo;
\* every index used during either undo is valid when it is used.
C27_DeleteAddInverse ==
    /\ pc # "undo_crashed"
    /\ Undone("DeleteObjects") =>
          LET before == last.objects_before
              step == ReturnedStep
          IN  /\ step.type = "AddObjects"
              /\ Descending(step.affected_objects)
              /\ Indices(step.affected_objects) = Indices(last.step.affected_objects)
              /\ \A k \in DOMAIN step.objects :
                    step.objects[k] = before[step.affected_objects[k] + 1]
              /\ Len(layer.objects) = Len(before) - Len(step.affected_objects)
              /\ layer.objects = Without(before, Indices(step.affected_objects))
    /\ Undone("AddObjects") =>
          LET step == ReturnedStep
          IN  /\ step.type = "DeleteObjects"
              /\ Ascending(step.affected_objects)
              /\ \A k \in DOMAIN last.step.objects :
                    layer.objects[last.step.affected_objects[k] + 1]
                        = last.step.objects[k]
    /\ (Undone("AddObjects") /\ UndoneBefore("DeleteObjects")) =>
          layer.objects = last.previous.objects_before
    /\ (Undone("DeleteObjects") /\ UndoneBefore("AddObjects")) =>
          layer.objects = last.previous.objects_before

\* the first and the last of three objects deleted by the undo of a step
\* that recorded them in ascending order, and added again
C27_Witness ==
    /\ Undone("AddObjects")
    /\ UndoneBefore("DeleteObjects")
    /\ last.previous.step.affected_objects = <<0, 2>>
    /\ last.step.affected_objects = <<2, 0>>
    /\ Len(layer.objects) = 3
    /\ layer.objects[1].id = 1
    /\ layer.objects[3].id = 3
    /\ ReturnedStep.affected_objects = <<0, 2>>

\* the identities of the objects of the sequence
Ids(objects) == [k \in DOMAIN objects |-> objects[k].id]

\* the objects held by the layer, by the undo steps and the deleted ones
RECURSIVE HeldBySteps(_)
HeldBySteps(k) ==
    IF k > Len(undo_steps) THEN <<>>
    ELSE Ids(undo_steps[k].objects) \o HeldBySteps(k + 1)

Holders == Ids(layer.objects) \o HeldBySteps(1) \o Ids(deleted_objects)

ReferencedSymbols(step) ==
    { step.objects[k].symbol : k \in DOMAIN step.objects }
    \cup Indices(step.target_symbols)

\* C29: an undo step never keeps a reference to a deleted symbol while
\* valid: when a symbol is deleted, every ObjectContainingUndoStep holding
\* an object with that symbol and every SwitchSymbolUndoStep targeting it
\* becomes invalid, and the steps not referencing it are unchanged; when a
\* symbol is replaced, every stored object or target that referenced the old
\* symbol references the new one afterwards and the step stays valid.
C29_NoDeletedSymbolInValidStep ==
    /\ pc = "undo" =>
          \A s \in DOMAIN undo_steps :
              undo_steps[s].valid =>
                  ReferencedSymbols(undo_steps[s]) \subseteq Indices(map_symbols)
    /\ (pc = "undo" /\ last.op = "symbolDeleted") =>
          /\ Len(undo_steps) = Len(last.steps_before)
          /\ \A s \in DOMAIN undo_steps :
                IF last.symbol \in ReferencedSymbols(last.steps_before[s])
                THEN ~undo_steps[s].valid
                ELSE undo_steps[s] = last.steps_before[s]
    /\ (pc = "undo" /\ last.op = "symbolChanged") =>
          /\ Len(undo_steps) = Len(last.steps_before)
          /\ \A s \in DOMAIN undo_steps :
                LET before == last.steps_before[s]
                    step == undo_steps[s]
                IN  /\ step.valid = before.valid
                    /\ step.affected_objects = before.affected_objects
                    /\ Ids(step.objects) = Ids(before.objects)
                    /\ \A k \in DOMAIN step.objects :
                          step.objects[k].symbol =
                              IF before.objects[k].symbol = last.old_symbol
                              THEN last.new_symbol ELSE before.objects[k].symbol
                    /\ Len(step.target_symbols) = Len(before.target_symbols)
                    /\ \A k \in DOMAIN step.target_symbols :
                          step.target_symbols[k] =
                              IF before.target_symbols[k] = last.old_symbol
                              THEN last.new_symbol ELSE before.target_symbols[k]

\* symbol 3 replaced by a new symbol in a step that holds two objects of it,
\* the step still valid
C29_Witness ==
    /\ pc = "undo"
    /\ last.op = "symbolChanged"
    /\ last.old_symbol = 3
    /\ \E s \in DOMAIN undo_steps :
          /\ undo_steps[s].valid
          /\ Len(undo_steps[s].objects) = 2
          /\ \A k \in 1..2 :
                /\ last.steps_before[s].objects[k].symbol = 3
                /\ undo_steps[s].objects[k].symbol = NewSymbolPointer

\* a step that holds an object of a deleted symbol, invalid
StepInvalidated ==
    /\ pc = "undo"
    /\ last.op = "symbolDeleted"
    /\ \E s \in DOMAIN undo_steps :
          /\ ~undo_steps[s].valid
          /\ last.symbol \in ReferencedSymbols(undo_steps[s])

(***************************************************************************)
(* C30.  A symbol that received its common fields through                  *)
(* duplicateImplCommon agrees with the original on every field that        *)
(* Symbol::equals compares with compare_state = true: type, number         *)
(* components, helper flag, hidden flag, protected flag, name and          *)
(* description; so equals, up to equalsImpl, is true for the two.          *)
(***************************************************************************)
Duplicated == pc = "scalar_done" /\ res.op = "duplicate"

C30_DuplicateAgrees ==
    Duplicated =>
        /\ res.symbol.type = arg.symbol.type
        /\ res.symbol.number = arg.symbol.number
        /\ res.symbol.is_helper_symbol = arg.symbol.is_helper_symbol
        /\ res.symbol.is_hidden = arg.symbol.is_hidden
        /\ res.symbol.is_protected = arg.symbol.is_protected
        /\ res.symbol.name = arg.symbol.name
        /\ res.symbol.description = arg.symbol.description
        /\ res.equal["CaseSensitive"]
        /\ res.equal["CaseInsensitive"]

\* what the code does give: every compared field but the protected flag
\* agrees, the copy is equal without the state, and equal with the state
\* exactly when the original is not protected
DuplicateAgreesButProtected ==
    Duplicated =>
        /\ res.symbol.type = arg.symbol.type
        /\ res.symbol.number = arg.symbol.number
        /\ res.symbol.is_helper_symbol = arg.symbol.is_helper_symbol
        /\ res.symbol.is_hidden = arg.symbol.is_hidden
        /\ res.symbol.name = arg.symbol.name
        /\ res.symbol.description = arg.symbol.description
        /\ res.symbol.is_protected = FALSE
        /\ res.equal_without_state
        /\ res.equal["CaseSensitive"] = ~arg.symbol.is_protected

DuplicatedProtected == Duplicated /\ arg.symbol.is_protected

(***************************************************************************)
(* C26.  Export emits, for each object in iteration order, one legacy      *)
(* object record per legacy number in the number set of the object's       *)
(* symbol, in the order of the set; an object whose symbol has no number   *)
(* set emits exactly one record, with symbol number -1.                    *)
(***************************************************************************)
ObjectsExported == pc \in {"export_objects", "export_done", "export_crashed"}

\* the records written for the map object at position o, in file order
RecordSeqOf(o) ==
    LET IsOf(r) == r.object = o IN SelectSeq(ocad_objects, IsOf)

HasNumberSet(object) == object.symbol \in DOMAIN symbol_index

\* the records are in the iteration order of the objects
InIterationOrder ==
    \A j, k \in 1..Len(ocad_objects) :
        j < k => ocad_objects[j].object <= ocad_objects[k].object

\* the records of one object: one per number of the set, carrying that number
\* (a text object carries the number of the symbol variant of its alignment)
RecordsPerNumber(o) ==
    LET object == map_objects[o]
        its    == SortedSeq(IndexSet(object))
        recs   == RecordSeqOf(o)
    IN  /\ Len(recs) = Len(its)
        /\ object.type # "Text" => \A k \in 1..Len(its) : recs[k].symbol = its[k]
        /\ ~HasNumberSet(object) => Len(recs) = 1 /\ recs[1].symbol = -1

C26_ObjectRecords ==
    ObjectsExported =>
        /\ InIterationOrder
        /\ \A o \in 1..Len(map_objects) : RecordsPerNumber(o)

\* what the code does give: the same for every object but a text object
\* whose symbol has no number set, at which the export ends
ObjectRecordsUnlessUnindexedText ==
    ObjectsExported =>
        /\ InIterationOrder
        /\ \A o \in 1..Len(map_objects) :
              (map_objects[o].type # "Text" \/ HasNumberSet(map_objects[o]))
                  => RecordsPerNumber(o)
        /\ pc = "export_crashed" =>
              /\ map_objects[Len(map_objects)].type = "Text"
              /\ ~HasNumberSet(map_objects[Len(map_objects)])
              /\ RecordSeqOf(Len(map_objects)) = <<>>

\* an object of a combined symbol of two parts has two records
TwoRecordsOfCombined ==
    /\ ObjectsExported
    /\ \E o \in 1..Len(map_objects) : Len(RecordSeqOf(o)) = 2

\* an object without a number set that is no text object has the record -1
UndefinedRecord ==
    /\ ObjectsExported
    /\ \E o \in 1..Len(map_objects) :
          ~HasNumberSet(map_objects[o]) /\ Len(RecordSeqOf(o)) = 1

====
